---------------------------- MODULE Spec2Model ----------------------------
(***************************************************************************)
(* Kinematics solver of the pneumatic linkage (frontend/src/utils/api.js): *)
(* distance, angle, circleIntersection, calculateGeometryFromStroke and    *)
(* calculateMotionRange.                                                   *)
(*                                                                         *)
(* Numbers.  The program computes in IEEE-754 doubles.  The model computes *)
(* the same expressions in exact real arithmetic:                          *)
(*   - a point is ((x + rx*sqrt(k))/den, (y + ry*sqrt(k))/den) with whole  *)
(*     x, rx, y, ry, k, den; a grid point has rx = ry = k = 0, den = 1;    *)
(*   - a length that need not be a whole number (the result of distance)   *)
(*     is carried as its square; the comparisons of the code between sums  *)
(*     of lengths are decided exactly on the squares;                      *)
(*   - a scalar is (u + v*sqrt(k))/den.                                    *)
(* Rounding is modelled where it decides what the program does: when the   *)
(* two circles touch (the exact value of r1^2 - a^2 is 0 and the exact d   *)
(* equals r1 + r2 or |r1 - r2|), the doubles the program compares differ   *)
(* from the exact values by rounding errors of either sign, so the         *)
(* outcome is one of FpOutcomes, chosen by the caller of the model's       *)
(* circleIntersection: a guard fires ("apart"), the radicand is negative   *)
(* and Math.sqrt yields NaN ("nan"), or the radicand is >= 0 ("touch").    *)
(* Likewise, when the two candidates are different points at the same      *)
(* exact distance of the base armEnd, dist1 <= dist2 of line 154 holds     *)
(* ("touch") or fails ("farther").  Away from these cases the margins on   *)
(* a small grid are many orders of magnitude above the rounding error and  *)
(* the exact value decides.                                                *)
(*                                                                         *)
(* Units.  In Spec and SpecMotion one model unit is 0.1 program units, so  *)
(* the floor 0.1 of line 137 is the whole number MinCylinderLength.        *)
(***************************************************************************)
EXTENDS Integers, Sequences, FiniteSets, TLC

VARIABLES geometry, stroke, ret, circle, motionStates, sweep, validation, forces, calls, app, channel, service, session, visualizer

vars == <<geometry, stroke, ret, circle, motionStates, sweep, validation, forces, calls, app, channel, service, session, visualizer>>

-----------------------------------------------------------------------------
(* Bounds of the model *)

\* grid coordinates of pivotPoint and armEnd: 0..MaxCoord
MaxCoord == 3
\* cylinderBase is (0..MaxBaseX, 0)
MaxBaseX == 1
\* base cylinder lengths 0..MaxCyl along the four axis directions
MaxCyl == 3
\* strokes -MaxStroke..MaxStroke
MaxStroke == 3
\* direct calls of circleIntersection: squared radii 0..MaxRadiusSq
MaxRadiusSq == 25
\* direct calls of circleIntersection: center2 in (0..MaxCenterX) \X (0..MaxCenterY)
MaxCenterX == 10
MaxCenterY == 2

\* number of steps of a sweep (the program's default is 20)
Steps == 4

\* largest cylinder extension set with the slider
MaxExtension == 1

\* calls of calculateForcesHttp that may await a response at one time
MaxPending == 1

\* sockets that one WebSocketService creates
MaxSockets == 3

\* reconnect timers that one WebSocketService sets
MaxTimers == 2

\* calls of send() on one WebSocketService
MaxSends == 2

\* pairs of connect and disconnect listeners that the App registers
MaxListeners == 2

\* HTTP requests of the App that await their response
MaxInflight == 2

\* entries of the history of LinkageVisualizer
MaxHistory == 3

-----------------------------------------------------------------------------
(* Whole-number helpers *)

Abs(i) == IF i < 0 THEN -i ELSE i

Sgn(i) == IF i < 0 THEN -1 ELSE IF i = 0 THEN 0 ELSE 1

RECURSIVE GCD(_, _)
GCD(a, b) == IF b = 0 THEN Abs(a) ELSE GCD(Abs(b), Abs(a) % Abs(b))

RECURSIVE SqrtSearch(_, _, _)
SqrtSearch(n, lo, hi) ==
    IF lo >= hi THEN lo
    ELSE LET mid == (lo + hi + 1) \div 2
         IN IF mid * mid <= n THEN SqrtSearch(n, mid, hi)
                              ELSE SqrtSearch(n, lo, mid - 1)

\* floor of Math.sqrt(n) for a whole n >= 0
ISqrt(n) == SqrtSearch(n, 0, IF n < 46340 THEN n ELSE 46340)

IsSquare(n) == n >= 0 /\ ISqrt(n) * ISqrt(n) = n

-----------------------------------------------------------------------------
(* Points *)

Pt(px, py) == [kind |-> "pt", x |-> px, y |-> py, rx |-> 0, ry |-> 0,
               k |-> 0, den |-> 1]

\* a point whose coordinates are NaN
NaNPoint == [kind |-> "nan", x |-> 0, y |-> 0, rx |-> 0, ry |-> 0,
             k |-> 0, den |-> 1]

\* what Array.find returns when no point has the id
Undefined == [kind |-> "undefined", x |-> 0, y |-> 0, rx |-> 0, ry |-> 0,
              k |-> 0, den |-> 1]

IsGrid(p) == p.kind = "pt" /\ p.k = 0 /\ p.den = 1

\* canonical form: a perfect-square k is folded, the fraction is reduced
PtNorm(p) ==
    LET s  == ISqrt(p.k)
        f  == IF s * s = p.k
              THEN [p EXCEPT !.x = p.x + p.rx * s, !.y = p.y + p.ry * s,
                             !.rx = 0, !.ry = 0, !.k = 0]
              ELSE p
        f2 == IF f.rx = 0 /\ f.ry = 0 THEN [f EXCEPT !.k = 0] ELSE f
        g  == GCD(GCD(GCD(f2.x, f2.y), GCD(f2.rx, f2.ry)), f2.den)
    IN [f2 EXCEPT !.x = f2.x \div g, !.y = f2.y \div g,
                  !.rx = f2.rx \div g, !.ry = f2.ry \div g,
                  !.den = f2.den \div g]

(* Scalars (u + v*sqrt(k))/den *)

Num(nu, nv, nk, nden) == [u |-> nu, v |-> nv, k |-> nk, den |-> nden]

Whole(i) == Num(i, 0, 0, 1)

\* sign of a scalar
NumSign(n) ==
    IF n.v = 0 \/ n.k = 0 THEN Sgn(n.u)
    ELSE IF n.u = 0 THEN Sgn(n.v)
    ELSE IF Sgn(n.u) = Sgn(n.v) THEN Sgn(n.u)
    ELSE IF n.u * n.u > n.v * n.v * n.k THEN Sgn(n.u)
    ELSE IF n.u * n.u < n.v * n.v * n.k THEN Sgn(n.v)
    ELSE 0

\* a - b; one of a, b is rational or both have the same k
NumSub(a, b) ==
    LET g  == GCD(a.den, b.den)
        fa == b.den \div g
        fb == a.den \div g
    IN Num(a.u * fa - b.u * fb, a.v * fa - b.v * fb,
           IF a.v # 0 THEN a.k ELSE b.k, a.den * fa)

NumLeq(a, b) == NumSign(NumSub(a, b)) <= 0

NumEq(a, b) == NumSign(NumSub(a, b)) = 0

-----------------------------------------------------------------------------
(* api.js 35-37: distance, carried as its square *)

\* Math.pow(p2.x - p1.x, 2) + Math.pow(p2.y - p1.y, 2)
distanceSq(p1, p2) ==
    LET d   == p1.den * p2.den
        xu  == p2.x * p1.den - p1.x * p2.den
        yu  == p2.y * p1.den - p1.y * p2.den
        xv  == p2.rx * p1.den - p1.rx * p2.den
        yv  == p2.ry * p1.den - p1.ry * p2.den
        kk  == IF p1.k # 0 THEN p1.k ELSE p2.k
    IN Num(xu * xu + yu * yu + kk * (xv * xv + yv * yv),
           2 * (xu * xv + yu * yv), kk, d * d)

\* the same between two grid points: a whole number
gridDistanceSq(p1, p2) ==
    (p2.x - p1.x) * (p2.x - p1.x) + (p2.y - p1.y) * (p2.y - p1.y)

\* distance(p1, p2) of two grid points on a common axis line: a whole number
distance(p1, p2) == ISqrt(gridDistanceSq(p1, p2))

\* distance(a, p) <= distance(b, p), decided on the squares
distanceLeq(a, b, p) == NumLeq(distanceSq(a, p), distanceSq(b, p))

\* api.js 45-47 with Math.cos / Math.sin of lines 138-139: the direction
\* (cos, sin) of angle(p1, p2) for two grid points on a common axis line;
\* Math.atan2(0, 0) is 0, so the direction of a zero vector is (1, 0)
angle(p1, p2) ==
    IF p1.x = p2.x /\ p1.y = p2.y THEN <<1, 0>>
    ELSE <<Sgn(p2.x - p1.x), Sgn(p2.y - p1.y)>>

-----------------------------------------------------------------------------
(* api.js 71-103: circleIntersection *)

\* what rounding can make of a tangency (see the head of the module)
FpOutcomes == {"touch", "apart", "nan"}

\* sqrt(dSq) > sqrt(aSq) + sqrt(bSq)
lengthGtSum(dSq, aSq, bSq) ==
    LET t == dSq - aSq - bSq IN t > 0 /\ t * t > 4 * aSq * bSq

\* sqrt(dSq) < |sqrt(aSq) - sqrt(bSq)|
lengthLtAbsDiff(dSq, aSq, bSq) ==
    LET t == aSq + bSq - dSq IN t > 0 /\ t * t > 4 * aSq * bSq

\* the exact d is r1 + r2 or |r1 - r2|, with d > 0
touching(dSq, r1Sq, r2Sq) ==
    LET t == dSq - r1Sq - r2Sq IN dSq > 0 /\ t * t = 4 * r1Sq * r2Sq

\* line 75: d > radius1 + radius2
tooFar(dSq, r1Sq, r2Sq, fp) ==
    \/ lengthGtSum(dSq, r1Sq, r2Sq)
    \/ fp = "apart" /\ touching(dSq, r1Sq, r2Sq) /\ dSq >= r1Sq + r2Sq

\* line 78: d < Math.abs(radius1 - radius2)
contained(dSq, r1Sq, r2Sq, fp) ==
    \/ lengthLtAbsDiff(dSq, r1Sq, r2Sq)
    \/ fp = "apart" /\ touching(dSq, r1Sq, r2Sq) /\ dSq <= r1Sq + r2Sq

\* circleIntersection without the guard of line 81
coincidentUnguarded(dSq, r1Sq, r2Sq) == FALSE

\* line 81: d === 0 && radius1 === radius2
coincident(dSq, r1Sq, r2Sq) == dSq = 0 /\ r1Sq = r2Sq

\* lines 75-81: one of the three guards returns null
returnsNull(dSq, r1Sq, r2Sq, fp) ==
    \/ tooFar(dSq, r1Sq, r2Sq, fp)
    \/ contained(dSq, r1Sq, r2Sq, fp)
    \/ coincident(dSq, r1Sq, r2Sq)

\* line 84: a = aTimes2d / (2 d)
aTimes2d(dSq, r1Sq, r2Sq) == r1Sq - r2Sq + dSq

\* line 85: r1^2 - a^2 = radicandTimes4dSq / (4 d^2) in exact arithmetic
radicandTimes4dSq(dSq, r1Sq, r2Sq) ==
    4 * r1Sq * dSq - aTimes2d(dSq, r1Sq, r2Sq) * aTimes2d(dSq, r1Sq, r2Sq)

\* line 85: the sign of the double r1^2 - a^2 handed to Math.sqrt; with
\* d = 0 the division of line 84 is by zero and the radicand is not >= 0
radicandSign(dSq, r1Sq, r2Sq, fp) ==
    IF dSq = 0 THEN -1
    ELSE IF touching(dSq, r1Sq, r2Sq) /\ fp = "nan" THEN -1
    ELSE Sgn(radicandTimes4dSq(dSq, r1Sq, r2Sq))

\* lines 87-102: p2 and the two points p2 +- h * perp(c2 - c1) / d
intersectionPoints(center1, center2, dSq, r1Sq, r2Sq) ==
    LET dx  == center2.x - center1.x
        dy  == center2.y - center1.y
        p2x == 2 * dSq * center1.x + aTimes2d(dSq, r1Sq, r2Sq) * dx
        p2y == 2 * dSq * center1.y + aTimes2d(dSq, r1Sq, r2Sq) * dy
        kk  == radicandTimes4dSq(dSq, r1Sq, r2Sq)
    IN << PtNorm([kind |-> "pt", x |-> p2x, y |-> p2y, rx |-> dy, ry |-> -dx,
                  k |-> kk, den |-> 2 * dSq]),
          PtNorm([kind |-> "pt", x |-> p2x, y |-> p2y, rx |-> -dy, ry |-> dx,
                  k |-> kk, den |-> 2 * dSq]) >>

\* circleIntersection(center1, radius1, center2, radius2) for grid centers and
\* radii given by their squares; null is <<>>
circleIntersection(center1, r1Sq, center2, r2Sq, fp) ==
    LET dSq == gridDistanceSq(center1, center2)
    IN IF returnsNull(dSq, r1Sq, r2Sq, fp) THEN << >>
       ELSE IF radicandSign(dSq, r1Sq, r2Sq, fp) < 0
            THEN <<NaNPoint, NaNPoint>>
            ELSE intersectionPoints(center1, center2, dSq, r1Sq, r2Sq)

-----------------------------------------------------------------------------
(* api.js 111-168: calculateGeometryFromStroke *)

Roles == {"cylinderBase", "cylinderRod", "pivotPoint", "armEnd"}

\* line 137: the floor 0.1 of the cylinder length, in model units
MinCylinderLength == 1

Max(a, b) == IF a >= b THEN a ELSE b

\* line 121: a required point is missing
missingPoint(g) == \E r \in Roles : g[r].kind = "undefined"

\* line 137 without the floor of Math.max
newCylinderLengthUnclamped(g, s) ==
    distance(g["cylinderBase"], g["cylinderRod"]) + s

\* line 137
newCylinderLength(g, s) ==
    Max(MinCylinderLength, distance(g["cylinderBase"], g["cylinderRod"]) + s)

\* lines 138-139
newCylinderRod(g, s) ==
    LET dir == angle(g["cylinderBase"], g["cylinderRod"])
        len == newCylinderLength(g, s)
    IN Pt(g["cylinderBase"].x + len * dir[1], g["cylinderBase"].y + len * dir[2])

\* lines 142-145: the circles are built from the base lengths (131, 134) and
\* the moved cylinderRod
armIntersections(g, s, fp) ==
    circleIntersection(g["pivotPoint"],
                       gridDistanceSq(g["pivotPoint"], g["armEnd"]),
                       newCylinderRod(g, s),
                       gridDistanceSq(g["cylinderRod"], g["armEnd"]),
                       fp)

\* line 154: dist1 <= dist2; a comparison with NaN is false, and when the two
\* distances are equal as real numbers the rounded ones compare either way
\* (fp = "farther": dist1 comes out the larger)
firstIsCloser(int1, int2, armEnd, fp) ==
    IF int1.kind = "nan" \/ int2.kind = "nan" THEN FALSE
    ELSE IF fp = "farther" /\ distanceLeq(int2, int1, armEnd) THEN FALSE
    ELSE distanceLeq(int1, int2, armEnd)

\* lines 147-165
newArmEnd(g, ints, fp) ==
    IF ints # << >>
    THEN IF firstIsCloser(ints[1], ints[2], g["armEnd"], fp) THEN ints[1]
         ELSE ints[2]
    ELSE g["armEnd"]

\* a solver that writes the solved point to pivotPoint instead of armEnd
calculateGeometryFromStrokeMovingPivot(baseGeometry, s, fp) ==
    IF missingPoint(baseGeometry)
    THEN [points |-> baseGeometry, solve |-> "skipped", intersections |-> << >>]
    ELSE LET ints == armIntersections(baseGeometry, s, fp)
         IN [points |-> [baseGeometry EXCEPT
                           !["cylinderRod"] = newCylinderRod(baseGeometry, s),
                           !["pivotPoint"] = newArmEnd(baseGeometry, ints, fp)],
             solve |-> IF ints = << >> THEN "none" ELSE "found",
             intersections |-> ints]

\* the returned geometry, with the value of the local `intersections`
\* ("skipped" is the early return of line 123)
calculateGeometryFromStroke(baseGeometry, s, fp) ==
    IF missingPoint(baseGeometry)
    THEN [points |-> baseGeometry, solve |-> "skipped", intersections |-> << >>]
    ELSE LET ints == armIntersections(baseGeometry, s, fp)
         IN [points |-> [baseGeometry EXCEPT
                           !["cylinderRod"] = newCylinderRod(baseGeometry, s),
                           !["armEnd"] = newArmEnd(baseGeometry, ints, fp)],
             solve |-> IF ints = << >> THEN "none" ELSE "found",
             intersections |-> ints]

-----------------------------------------------------------------------------
(* Inputs *)

Grid == {Pt(px, py) : px \in 0..MaxCoord, py \in 0..MaxCoord}

AxisDirs == {<<1, 0>>, <<0, 1>>, <<-1, 0>>, <<0, -1>>}

Strokes == (-MaxStroke)..MaxStroke

\* geometries with the four points: any pivotPoint and armEnd of the grid, the
\* cylinder along an axis (its length is then a whole number)
CompleteGeometries ==
    { [r \in Roles |->
         CASE r = "cylinderBase" -> Pt(bx, 0)
           [] r = "cylinderRod"  -> Pt(bx + m * dir[1], m * dir[2])
           [] r = "pivotPoint"   -> pv
           [] r = "armEnd"       -> ae] :
      bx \in 0..MaxBaseX, m \in 0..MaxCyl, dir \in AxisDirs,
      pv \in Grid, ae \in Grid }

SampleGeometry ==
    [r \in Roles |->
       CASE r = "cylinderBase" -> Pt(0, 0)
         [] r = "cylinderRod"  -> Pt(2, 0)
         [] r = "pivotPoint"   -> Pt(0, 2)
         [] r = "armEnd"       -> Pt(2, 2)]

\* geometries that lack one of the required points
IncompleteGeometries ==
    { [SampleGeometry EXCEPT ![r] = Undefined] : r \in Roles }

Geometries == CompleteGeometries \union IncompleteGeometries

RetIdle == [pc |-> "idle", fp |-> "touch", points |-> SampleGeometry,
            solve |-> "skipped", intersections |-> << >>]

SweepIdle == [pc |-> "idle", i |-> 0, steps |-> 0]

\* no call made yet on the caller's geometry; argument is the geometry that the
\* last call was given, repeated tells that some call had the arguments of the
\* call before it of the same operation
CallsIdle == [argument |-> SampleGeometry, repeated |-> FALSE]

\* a value of a points object of the App: a point {x, y} or a number
XY(px, py) == [t |-> "point", x |-> px, y |-> py]

Scalar(n) == [t |-> "number", x |-> n, y |-> 0]

\* App.jsx 11-17
defaultGeometry ==
    [pivotBase |-> XY(100, 200), pivotArm |-> XY(200, 100),
     cylinderBase |-> XY(100, 250), cylinderArm |-> XY(200, 100),
     cylinderMinLength |-> Scalar(10)]

\* no request sent, no response handled
NoRequest == [via |-> "none", data |-> [simulationMode |-> TRUE]]

NoResponse ==
    [via |-> "none", thrown |-> FALSE, error |-> FALSE, message |-> "",
     forceAnalysis |-> 0, updatedPoints |-> [form |-> "absent",
                                             points |-> defaultGeometry]]

\* App.jsx 21-29: the state of the component after the first render; version
\* tells which of the two App.jsx of the repository runs
AppIdle ==
    [version |-> "App.jsx", points |-> defaultGeometry, cylinderExtension |-> 0,
     forceData |-> 0, connectionStatus |-> "http", calculating |-> FALSE,
     errorMessage |-> "", useWebSocket |-> FALSE]

\* pending counts the calls of calculateForcesHttp that await their response,
\* request is the request that the last step sent, response the response that
\* the last step handled
ChannelIdle == [pending |-> 0, request |-> NoRequest, response |-> NoResponse]

\* websocket.js 3-14: the service after its constructor.  socket is 0 for
\* null, else the number of the socket; reconnectTimer is 0 for null, else the
\* handle of a timer; timers holds the handles of the timers that will fire;
\* readyState is the state of every socket created; wire lists what
\* socket.send was given and took.  flush is the loop of lines 32-35: queued
\* and sentBefore are pendingMessages and the length of wire when the socket
\* opened.  closedByCaller: close() was called and connect() and send() not
\* since.  version tells which copy of the class runs.
ServiceIdle ==
    [version |-> "websocket.js", socket |-> 0, isConnected |-> FALSE,
     reconnectTimer |-> 0, timers |-> {}, timersSet |-> 0,
     pendingMessages |-> << >>, readyState |-> << >>, wire |-> << >>,
     sends |-> 0, flush |-> [pc |-> "idle", queued |-> << >>, sentBefore |-> 0],
     listenersNotified |-> FALSE, closedByCaller |-> FALSE]

\* no HTTP response handled in the last step
NoneHandled == [kind |-> "none", points |-> defaultGeometry, position |-> 0]

\* no setTimeout(calculateForces, 100) of handleReset waits
NoResetTimer ==
    [pending |-> FALSE, points |-> defaultGeometry, cylinderExtension |-> 0,
     calculating |-> FALSE]

\* listeners counts the pairs of listeners that the App has registered with
\* websocketService.on (App.jsx 54-55).  App.jsx 35-36: the refs;
\* debounceTimer, extensionTimer and resetTimer are the timers of the
\* effects and of handleReset, resetTimer with the points, the extension and
\* the calculating flag of the render whose calculateForces it calls.
\* inflight lists the HTTP requests that await their response, with the
\* points of the App they were made from; requested is what the last
\* calculateForces request carried; handled is the request whose response
\* the last step applied.
SessionIdle ==
    [listeners |-> 0, generatingGraph |-> FALSE,
     prevPointsRef |-> defaultGeometry, prevExtensionRef |-> 0,
     debounceTimer |-> FALSE, extensionTimer |-> FALSE,
     resetTimer |-> NoResetTimer, inflight |-> << >>,
     requested |-> [points |-> defaultGeometry, cylinderExtension |-> 0],
     handled |-> NoneHandled]

\* Progress_2.24.25.md 52-62: two of the points, the others are alike
DEFAULT_POSITIONS == [point1 |-> [x |-> 0, y |-> 8], pointA |-> [x |-> 0, y |-> 9]]

\* no drag in progress
NoDrag ==
    [active |-> FALSE, pointId |-> "point1", points |-> DEFAULT_POSITIONS,
     historyIndex |-> 0]

\* Progress_2.24.25.md 66-68: the state of LinkageVisualizer after the first
\* render.  history is a JavaScript array, so history[historyIndex] of the
\* code is history[historyIndex + 1] here.  drag holds what the handlers of
\* createDragHandler closed over at mousedown.  last tells whether the last
\* click was Undo, or Redo right after Undo, and before is what was shown
\* before that Undo.
VisualizerIdle ==
    [points |-> DEFAULT_POSITIONS, history |-> <<DEFAULT_POSITIONS>>,
     historyIndex |-> 0, drag |-> NoDrag,
     last |-> "other", before |-> DEFAULT_POSITIONS]

ForcesIdle == [pc |-> "idle", result |-> [isNull |-> TRUE]]

\* lifted: armEnd lies 1e-9 beside its grid point, see liftable
ValidationIdle ==
    [pc |-> "idle", fp |-> "touch", lifted |-> FALSE, result |-> [valid |-> FALSE]]

CircleIdle == [pc |-> "idle", center1 |-> Pt(0, 0), radius1Sq |-> 0,
               center2 |-> Pt(0, 0), radius2Sq |-> 0, fp |-> "touch",
               result |-> << >>]

-----------------------------------------------------------------------------
(* Spec: a caller holds a geometry and calls calculateGeometryFromStroke *)

Init ==
    /\ geometry \in Geometries
    /\ stroke = 0
    /\ ret = RetIdle
    /\ circle = CircleIdle
    /\ motionStates = << >>
    /\ sweep = SweepIdle
    /\ validation = ValidationIdle
    /\ forces = ForcesIdle
    /\ calls = CallsIdle
    /\ app = AppIdle
    /\ channel = ChannelIdle
    /\ service = ServiceIdle
    /\ session = SessionIdle
    /\ visualizer = VisualizerIdle

\* the two candidates are different points at the same distance of the base
\* armEnd
candidatesTie(g, s) ==
    LET ints == armIntersections(g, s, "touch")
    IN  /\ ints # << >>
        /\ ints[1] # ints[2]
        /\ NumEq(distanceSq(ints[1], g["armEnd"]),
                 distanceSq(ints[2], g["armEnd"]))

\* the rounding outcomes that can differ for this call: those of a tangency
\* and those of a tie of line 154 (the coordinates, multiples of 0.1, are no
\* exact doubles)
fpChoices(g, s) ==
    IF missingPoint(g) THEN {"touch"}
    ELSE IF touching(gridDistanceSq(g["pivotPoint"], newCylinderRod(g, s)),
                     gridDistanceSq(g["pivotPoint"], g["armEnd"]),
                     gridDistanceSq(g["cylinderRod"], g["armEnd"]))
         THEN FpOutcomes
         ELSE IF candidatesTie(g, s) THEN {"touch", "farther"}
         ELSE {"touch"}

Solve ==
    /\ ret.pc = "idle"
    /\ \E s \in Strokes :
         \E fp \in fpChoices(geometry, s) :
            /\ stroke' = s
            /\ ret' = [pc |-> "returned", fp |-> fp]
                        @@ calculateGeometryFromStroke(geometry, s, fp)
    /\ UNCHANGED <<geometry, circle, motionStates, sweep, validation, forces, calls, app, channel, service, session, visualizer>>

Next == Solve

Spec == Init /\ [][Next]_vars

-----------------------------------------------------------------------------
(* SpecCircle: a direct call of circleIntersection with grid centers *)

Center1s == {Pt(0, 0), Pt(1, 1)}

Center2s == {Pt(px, py) : px \in 0..MaxCenterX, py \in 0..MaxCenterY}

\* with whole radii and a whole d every double of lines 72-85 is exact
exactArguments(c) ==
    /\ IsSquare(c.radius1Sq) /\ IsSquare(c.radius2Sq)
    /\ IsSquare(gridDistanceSq(c.center1, c.center2))

InitCircle ==
    /\ geometry = SampleGeometry
    /\ stroke = 0
    /\ ret = RetIdle
    /\ motionStates = << >>
    /\ sweep = SweepIdle
    /\ validation = ValidationIdle
    /\ forces = ForcesIdle
    /\ calls = CallsIdle
    /\ app = AppIdle
    /\ channel = ChannelIdle
    /\ service = ServiceIdle
    /\ session = SessionIdle
    /\ visualizer = VisualizerIdle
    /\ \E c1 \in Center1s, c2 \in Center2s,
          q1 \in 0..MaxRadiusSq, q2 \in 0..MaxRadiusSq :
          circle = [CircleIdle EXCEPT !.pc = "called", !.center1 = c1,
                      !.center2 = c2, !.radius1Sq = q1, !.radius2Sq = q2]

Intersect ==
    /\ circle.pc = "called"
    /\ \E fp \in (IF exactArguments(circle) THEN {"touch"} ELSE FpOutcomes) :
          circle' = [circle EXCEPT
                       !.pc = "returned", !.fp = fp,
                       !.result = circleIntersection(circle.center1,
                                     circle.radius1Sq, circle.center2,
                                     circle.radius2Sq, fp)]
    /\ UNCHANGED <<geometry, stroke, ret, motionStates, sweep, validation, forces, calls, app, channel, service, session, visualizer>>

NextCircle == Intersect

SpecCircle == InitCircle /\ [][NextCircle]_vars

-----------------------------------------------------------------------------
(* SpecMotion: calculateMotionRange sweeps the stroke over steps + 1 samples *)

\* the base cylinder of a sweep is 2 * Steps units long (or has no length),
\* so that every sample stroke of lines 332-333 is a whole number of units
MotionGeometries ==
    { [r \in Roles |->
         CASE r = "cylinderBase" -> Pt(bx, 0)
           [] r = "cylinderRod"  -> Pt(bx + 2 * Steps * m * dir[1],
                                       2 * Steps * m * dir[2])
           [] r = "pivotPoint"   -> pv
           [] r = "armEnd"       -> ae] :
      bx \in 0..MaxBaseX, m \in 0..1, dir \in AxisDirs,
      pv \in Grid, ae \in Grid }

\* the values of the argument steps: 0, and the step counts for which the
\* sample strokes of a cylinder of 2 * Steps units are whole numbers
StepCounts == {0} \union {n \in 1..Steps : Steps % n = 0}

\* a number of a MotionState: a whole number of units, or NaN
Number(n) == [nan |-> FALSE, val |-> n]

NaNNumber == [nan |-> TRUE, val |-> 0]

\* calculateGeometryFromStroke(baseGeometry, NaN): Math.max(0.1, NaN) is NaN,
\* no guard of circleIntersection fires on a NaN distance and dist1 <= dist2 is
\* false, so cylinderRod and armEnd get NaN coordinates
calculateGeometryFromNaNStroke(baseGeometry) ==
    IF missingPoint(baseGeometry)
    THEN [points |-> baseGeometry, solve |-> "skipped", intersections |-> << >>]
    ELSE [points |-> [baseGeometry EXCEPT !["cylinderRod"] = NaNPoint,
                                          !["armEnd"] = NaNPoint],
          solve |-> "found",
          intersections |-> <<NaNPoint, NaNPoint>>]

\* a sweep from 0 to baseLength in the place of -50% .. +50%
sampleStrokeFromZero(baseLength, i, steps) == (baseLength * i) \div steps

\* stroke of sample i : minStroke + (maxStroke - minStroke) * (i / steps)
sampleStroke(baseLength, i, steps) ==
    (baseLength * (2 * i - steps)) \div (2 * steps)

\* the forces of a MotionState: null when a point is missing (lines 184-187),
\* a record otherwise
forcesOrNull(g) == IF missingPoint(g) THEN "null" ELSE "forces"

\* the object pushed for sample i, with the value the local `intersections`
\* had in calculateGeometryFromStroke
motionState(g, i, steps, fp) ==
    LET s  == IF steps = 0 THEN 0
              ELSE sampleStroke(distance(g["cylinderBase"], g["cylinderRod"]),
                                i, steps)
        ng == IF steps = 0 THEN calculateGeometryFromNaNStroke(g)
              ELSE calculateGeometryFromStroke(g, s, fp)
    IN  [strokePercentage |-> [num |-> 100 * i, den |-> steps],
         stroke           |-> IF steps = 0 THEN NaNNumber ELSE Number(s),
         geometry         |-> ng.points,
         solve            |-> ng.solve,
         intersections    |-> ng.intersections,
         forces           |-> forcesOrNull(ng.points)]

InitMotion ==
    /\ geometry \in MotionGeometries \union IncompleteGeometries
    /\ stroke = 0
    /\ ret = RetIdle
    /\ circle = CircleIdle
    /\ motionStates = << >>
    /\ sweep = SweepIdle
    /\ validation = ValidationIdle
    /\ forces = ForcesIdle
    /\ calls = CallsIdle
    /\ app = AppIdle
    /\ channel = ChannelIdle
    /\ service = ServiceIdle
    /\ session = SessionIdle
    /\ visualizer = VisualizerIdle

\* the rounding outcomes of sample i
sampleFpChoices(g, i, steps) ==
    IF steps = 0 THEN {"touch"}
    ELSE fpChoices(g, sampleStroke(distance(g["cylinderBase"], g["cylinderRod"]),
                                   i, steps))

\* lines 316-329 : distance() reads .x of an undefined cylinder point and
\* throws; otherwise the loop is entered with an empty array
StartSweep ==
    /\ sweep.pc = "idle"
    /\ \E n \in StepCounts :
          sweep' = IF geometry["cylinderBase"].kind = "undefined"
                      \/ geometry["cylinderRod"].kind = "undefined"
                   THEN [pc |-> "thrown", i |-> 0, steps |-> n]
                   ELSE [pc |-> "loop", i |-> 0, steps |-> n]
    /\ UNCHANGED <<geometry, stroke, ret, circle, motionStates, validation, forces, calls, app, channel, service, session, visualizer>>

\* line 335 with the rod that the sample before has moved, as if
\* calculateGeometryFromStroke wrote to its argument
sampleBaseMovedByPrevious(baseGeometry, states) ==
    IF Len(states) = 0 THEN baseGeometry
    ELSE IF IsGrid(states[Len(states)].geometry["cylinderRod"])
         THEN [baseGeometry EXCEPT
                 !["cylinderRod"] = states[Len(states)].geometry["cylinderRod"]]
         ELSE baseGeometry

\* line 335: every sample is solved from baseGeometry, the copy of line 316,
\* which no sample writes to (line 113 copies it again)
sampleBase(baseGeometry, states) == baseGeometry

\* one iteration of the loop of lines 331-348
SweepStep ==
    /\ sweep.pc = "loop"
    /\ sweep.i <= sweep.steps
    /\ \E fp \in sampleFpChoices(sampleBase(geometry, motionStates),
                                 sweep.i, sweep.steps) :
          motionStates' = Append(motionStates,
                            motionState(sampleBase(geometry, motionStates),
                                        sweep.i, sweep.steps, fp))
    /\ sweep' = [sweep EXCEPT !.i = sweep.i + 1]
    /\ UNCHANGED <<geometry, stroke, ret, circle, validation, forces, calls, app, channel, service, session, visualizer>>

\* line 350 : the loop condition fails and the array is returned
SweepReturn ==
    /\ sweep.pc = "loop"
    /\ sweep.i > sweep.steps
    /\ sweep' = [sweep EXCEPT !.pc = "returned"]
    /\ UNCHANGED <<geometry, stroke, ret, circle, motionStates, validation, forces, calls, app, channel, service, session, visualizer>>

NextMotion == StartSweep \/ SweepStep \/ SweepReturn

SpecMotion == InitMotion /\ [][NextMotion]_vars

-----------------------------------------------------------------------------
(* api.js 257-306: validateGeometry.  In SpecValidate one model unit is one  *)
(* program unit: the coordinates are whole numbers and exact doubles.        *)

\* lines 294 and 298: the bounds of a reasonable cylinder length
MinValidCylinder == 10

MaxValidCylinder == 1000

MissingPoints == "Missing required points in geometry"

TooShortToConnect == "Arm and cross-link are too short to connect"

CrossLinkTooLong == "Cross-link is too long for the mechanism"

ArmTooLong == "Arm is too long for the mechanism"

CylinderTooShort == "Cylinder length is too short"

CylinderTooLong == "Cylinder length is too long"

\* sqrt(aSq) + sqrt(bSq) = sqrt(dSq)
sumEq(aSq, bSq, dSq) ==
    LET t == dSq - aSq - bSq IN t >= 0 /\ t * t = 4 * aSq * bSq

\* the doubles of the three lengths are exact, or the sum has a zero term and
\* its two other lengths are the same double
exactLengths(aSq, bSq, dSq) ==
    \/ aSq = 0 \/ bSq = 0 \/ dSq = 0
    \/ IsSquare(aSq) /\ IsSquare(bSq) /\ IsSquare(dSq)

\* a strict comparison in the place of the <= of lines 281, 285, 289
sumLt(aSq, bSq, dSq, fp) == lengthGtSum(dSq, aSq, bSq)

\* lines 281, 285, 289: sqrt(aSq) + sqrt(bSq) <= sqrt(dSq); when the two sides
\* are equal as real numbers and rounded, the doubles compare either way
sumLeq(aSq, bSq, dSq, fp) ==
    \/ lengthGtSum(dSq, aSq, bSq)
    \/ sumEq(aSq, bSq, dSq) /\ (exactLengths(aSq, bSq, dSq) \/ fp # "apart")

\* constraints.push(message) under a condition
pushIf(constraints, condition, message) ==
    IF condition THEN Append(constraints, message) ELSE constraints

validateGeometry(g, fp) ==
    IF missingPoint(g)
    THEN [valid |-> FALSE, errors |-> <<MissingPoints>>]
    ELSE LET cylinderLength  == distance(g["cylinderBase"], g["cylinderRod"])
             armSq           == gridDistanceSq(g["pivotPoint"], g["armEnd"])
             crossLinkSq     == gridDistanceSq(g["cylinderRod"], g["armEnd"])
             pivotToRodSq    == gridDistanceSq(g["pivotPoint"], g["cylinderRod"])
             c1 == pushIf(<< >>, sumLeq(armSq, crossLinkSq, pivotToRodSq, fp),
                          TooShortToConnect)
             c2 == pushIf(c1, sumLeq(pivotToRodSq, armSq, crossLinkSq, fp),
                          CrossLinkTooLong)
             c3 == pushIf(c2, sumLeq(pivotToRodSq, crossLinkSq, armSq, fp),
                          ArmTooLong)
             c4 == pushIf(c3, cylinderLength < MinValidCylinder, CylinderTooShort)
             c5 == pushIf(c4, cylinderLength > MaxValidCylinder, CylinderTooLong)
         IN  [valid |-> Len(c5) = 0, constraints |-> c5]

\* cylinder lengths on both sides of the two bounds
CylinderLengths ==
    {0, MinValidCylinder - 1, MinValidCylinder, MaxValidCylinder,
     MaxValidCylinder + 1}

\* any pivotPoint, armEnd and cylinderRod of the grid, the cylinder along -x
ValidateGeometries ==
    { [r \in Roles |->
         CASE r = "cylinderBase" -> Pt(cr.x - len, cr.y)
           [] r = "cylinderRod"  -> cr
           [] r = "pivotPoint"   -> pv
           [] r = "armEnd"       -> ae] :
      len \in CylinderLengths, cr \in Grid, pv \in Grid, ae \in Grid }

\* pivotPoint, cylinderRod and armEnd lie on one line along an axis, armEnd
\* away from the two others.  Lifted off that line by 1e-9 across it, armEnd
\* makes a triangle with them, and lines 270-276 compute the lengths of the
\* straight geometry: the square of 1e-9 is less than half the last binary
\* place of a squared distance that is 1 or more.
liftable(g) ==
    /\ ~ missingPoint(g)
    /\ g["armEnd"] # g["pivotPoint"]
    /\ g["armEnd"] # g["cylinderRod"]
    /\ \/ g["pivotPoint"].y = g["armEnd"].y /\ g["cylinderRod"].y = g["armEnd"].y
       \/ g["pivotPoint"].x = g["armEnd"].x /\ g["cylinderRod"].x = g["armEnd"].x

InitValidate ==
    /\ geometry \in ValidateGeometries \union IncompleteGeometries
    /\ stroke = 0
    /\ ret = RetIdle
    /\ circle = CircleIdle
    /\ motionStates = << >>
    /\ sweep = SweepIdle
    /\ validation \in {[ValidationIdle EXCEPT !.lifted = l] :
                          l \in IF liftable(geometry) THEN BOOLEAN ELSE {FALSE}}
    /\ forces = ForcesIdle
    /\ calls = CallsIdle
    /\ app = AppIdle
    /\ channel = ChannelIdle
    /\ service = ServiceIdle
    /\ session = SessionIdle
    /\ visualizer = VisualizerIdle

\* the rounding outcomes of a call: two at a straight-line geometry whose
\* lengths are no exact doubles
validateFpChoices(g) ==
    IF missingPoint(g) THEN {"touch"}
    ELSE LET armSq        == gridDistanceSq(g["pivotPoint"], g["armEnd"])
             crossLinkSq  == gridDistanceSq(g["cylinderRod"], g["armEnd"])
             pivotToRodSq == gridDistanceSq(g["pivotPoint"], g["cylinderRod"])
         IN  IF /\ ~ exactLengths(armSq, crossLinkSq, pivotToRodSq)
                /\ \/ sumEq(armSq, crossLinkSq, pivotToRodSq)
                   \/ sumEq(pivotToRodSq, armSq, crossLinkSq)
                   \/ sumEq(pivotToRodSq, crossLinkSq, armSq)
             THEN {"touch", "apart"}
             ELSE {"touch"}

Validate ==
    /\ validation.pc = "idle"
    /\ \E fp \in validateFpChoices(geometry) :
          validation' = [pc |-> "returned", fp |-> fp,
                         lifted |-> validation.lifted,
                         result |-> validateGeometry(geometry, fp)]
    /\ UNCHANGED <<geometry, stroke, ret, circle, motionStates, sweep, forces, calls, app, channel, service, session, visualizer>>

NextValidate == Validate

SpecValidate == InitValidate /\ [][NextValidate]_vars

-----------------------------------------------------------------------------
(* api.js 177-250: calculateBasicForces.  In SpecForces one model unit is    *)
(* one program unit, the cylinder and the arm lie along an axis (their       *)
(* lengths are whole numbers) and a force is counted in units of             *)
(* cylinderForce, the positive constant of lines 204-208.  A number is a     *)
(* fraction n/d, an infinity or NaN, with the division of IEEE-754.          *)

\* stands for 1 / |Math.cos| of a right angle, a rounding residue
HugeQuotient == 10000

XNaN == [kind |-> "nan", n |-> 0, d |-> 1]

XInf(sign) == [kind |-> "inf", n |-> sign, d |-> 1]

XNum(n, d) ==
    LET g == GCD(n, d)
    IN  [kind |-> "num", n |-> Sgn(d) * (n \div g), d |-> Abs(d) \div g]

\* a * b
XMul(a, b) ==
    IF a.kind = "nan" \/ b.kind = "nan" THEN XNaN
    ELSE IF a.kind = "inf" \/ b.kind = "inf"
         THEN IF a.n = 0 \/ b.n = 0 THEN XNaN ELSE XInf(Sgn(a.n) * Sgn(b.n))
         ELSE XNum(a.n * b.n, a.d * b.d)

\* a / b : 0 / 0 and inf / inf are NaN, x / 0 is an infinity, x / inf is 0
XDiv(a, b) ==
    IF a.kind = "nan" \/ b.kind = "nan" THEN XNaN
    ELSE IF a.kind = "inf"
         THEN IF b.kind = "inf" THEN XNaN
              ELSE XInf(a.n * (IF b.n < 0 THEN -1 ELSE 1))
         ELSE IF b.kind = "inf" THEN XNum(0, 1)
              ELSE IF b.n = 0
                   THEN IF a.n = 0 THEN XNaN ELSE XInf(Sgn(a.n))
                   ELSE XNum(a.n * b.d, a.d * b.n)

\* a === b of two numbers: NaN equals nothing
XEq(a, b) == a.kind # "nan" /\ b.kind # "nan" /\ a = b

\* the vector p1 -> p2, and (1, 0), the direction of Math.atan2(0, 0), for
\* two equal points
direction(p1, p2) ==
    IF p1.x = p2.x /\ p1.y = p2.y THEN <<1, 0>>
    ELSE <<p2.x - p1.x, p2.y - p1.y>>

\* lines 214 and 221 without lines 217 and 224: the quotient
\* sin(armCrossLinkAngle) / cos(cylinderCrossLinkAngle), that is
\* (arm x crossLink) / (cylinder . crossLink); for a cross-link at a right
\* angle to the cylinder Math.cos is a residue of the sign residueSign
forceQuotient(g, residueSign) ==
    LET c == angle(g["cylinderBase"], g["cylinderRod"])
        a == angle(g["pivotPoint"], g["armEnd"])
        l == direction(g["cylinderRod"], g["armEnd"])
        cosTimes == c[1] * l[1] + c[2] * l[2]
        sinTimes == a[1] * l[2] - a[2] * l[1]
    IN  IF cosTimes = 0 THEN XNum(residueSign * HugeQuotient, 1)
        ELSE XNum(sinTimes, cosTimes)

\* lines 184-187
forcesAreNull(g) == missingPoint(g)

calculateBasicForces(g, residueSign) ==
    IF forcesAreNull(g) THEN [isNull |-> TRUE]
    ELSE LET cylinderLength == XNum(distance(g["cylinderBase"], g["cylinderRod"]), 1)
             armLength      == XNum(distance(g["pivotPoint"], g["armEnd"]), 1)
             cylinderForce  == XNum(1, 1)
             torque         == XMul(forceQuotient(g, residueSign), armLength)
             outputForce    == XDiv(torque, armLength)
             mechanicalAdvantage      == XDiv(outputForce, cylinderForce)
             idealMechanicalAdvantage == XDiv(armLength, cylinderLength)
             efficiency == XMul(XDiv(mechanicalAdvantage, idealMechanicalAdvantage),
                                XNum(100, 1))
         IN  [isNull |-> FALSE,
              cylinderForce |-> cylinderForce,
              cylinderLength |-> cylinderLength,
              armLength |-> armLength,
              outputForce |-> outputForce,
              torque |-> torque,
              mechanicalAdvantage |-> mechanicalAdvantage,
              efficiency |-> efficiency]

\* the cylinder from (0, 0) along +x, the arm from any pivotPoint along an axis
ForceGeometries ==
    { [r \in Roles |->
         CASE r = "cylinderBase" -> Pt(0, 0)
           [] r = "cylinderRod"  -> Pt(m, 0)
           [] r = "pivotPoint"   -> pv
           [] r = "armEnd"       -> Pt(pv.x + n * dir[1], pv.y + n * dir[2])] :
      m \in 0..MaxCyl, n \in 0..MaxCyl, dir \in AxisDirs, pv \in Grid }

InitForces ==
    /\ geometry \in ForceGeometries \union IncompleteGeometries
    /\ stroke = 0
    /\ ret = RetIdle
    /\ circle = CircleIdle
    /\ motionStates = << >>
    /\ sweep = SweepIdle
    /\ validation = ValidationIdle
    /\ forces = ForcesIdle
    /\ calls = CallsIdle
    /\ app = AppIdle
    /\ channel = ChannelIdle
    /\ service = ServiceIdle
    /\ session = SessionIdle
    /\ visualizer = VisualizerIdle

Analyse ==
    /\ forces.pc = "idle"
    /\ \E residueSign \in {-1, 1} :
          forces' = [pc |-> "returned",
                     result |-> calculateBasicForces(geometry, residueSign)]
    /\ UNCHANGED <<geometry, stroke, ret, circle, motionStates, sweep, validation, calls, app, channel, service, session, visualizer>>

NextForces == Analyse

SpecForces == InitForces /\ [][NextForces]_vars

-----------------------------------------------------------------------------
(* The four operations called, in any order and repeatedly, on one geometry  *)
(* object that the caller keeps (SpecPure).  api.js keeps no variable        *)
(* outside its functions (line 2 is a constant string), so a result can      *)
(* depend on an earlier call only through the object the call was given.     *)
(* Each operation reads the coordinates in the unit of its own section.      *)
(* IEEE arithmetic rounds equal operands equally: a call repeated on equal   *)
(* arguments takes the rounding outcome of the call before.                  *)

\* the caller's geometry after calculateGeometryFromStroke(baseGeometry, ..)
\* has returned newGeometry: line 113 makes newGeometry a deep copy, and the
\* writes of lines 138-139 and 155-159 go to the points of the copy
argumentAfterAliased(baseGeometry, newGeometry) == newGeometry

argumentAfter(baseGeometry, newGeometry) == baseGeometry

\* the cylinder from (0, 0) to (2 * Steps, 0), the pivot on the diagonal, the
\* arm along an axis
PureGeometries ==
    { [r \in Roles |->
         CASE r = "cylinderBase" -> Pt(0, 0)
           [] r = "cylinderRod"  -> Pt(2 * Steps, 0)
           [] r = "pivotPoint"   -> pv
           [] r = "armEnd"       -> Pt(pv.x + n * dir[1], pv.y + n * dir[2])] :
      n \in 0..MaxCyl, dir \in AxisDirs,
      pv \in {Pt(c, c) : c \in 0..MaxBaseX} }

\* the strokes of SpecPure: both ends of the range, and none
PureStrokes == {-MaxStroke, 0, MaxStroke}

InitPure ==
    /\ geometry \in PureGeometries \union IncompleteGeometries
    /\ stroke = 0
    /\ ret = RetIdle
    /\ circle = CircleIdle
    /\ motionStates = << >>
    /\ sweep = SweepIdle
    /\ validation = ValidationIdle
    /\ forces = ForcesIdle
    /\ calls = CallsIdle
    /\ app = AppIdle
    /\ channel = ChannelIdle
    /\ service = ServiceIdle
    /\ session = SessionIdle
    /\ visualizer = VisualizerIdle

\* the call repeats the arguments of the call before it
repeated(previous) == previous.pc = "returned" /\ calls.argument = geometry

called(again) == [argument |-> geometry, repeated |-> calls.repeated \/ again]

CallSolve ==
    /\ \E s \in PureStrokes :
         \E fp \in IF repeated(ret) /\ s = stroke THEN {ret.fp}
                   ELSE fpChoices(geometry, s) :
            /\ stroke' = s
            /\ ret' = [pc |-> "returned", fp |-> fp]
                        @@ calculateGeometryFromStroke(geometry, s, fp)
            /\ calls' = called(repeated(ret) /\ s = stroke)
    /\ geometry' = argumentAfter(geometry, ret'.points)
    /\ UNCHANGED <<circle, motionStates, sweep, validation, forces, app, channel, service, session, visualizer>>

\* lines 177-250 read the points and write none
CallForces ==
    /\ \E residueSign \in {-1, 1} :
          /\ forces' = [pc |-> "returned",
                        result |-> calculateBasicForces(geometry, residueSign)]
          /\ repeated(forces) => forces' = forces
    /\ calls' = called(repeated(forces))
    /\ UNCHANGED <<geometry, stroke, ret, circle, motionStates, sweep, validation, app, channel, service, session, visualizer>>

\* lines 257-306 read the points and write none
CallValidate ==
    /\ \E fp \in IF repeated(validation) THEN {validation.fp}
                 ELSE validateFpChoices(geometry) :
          validation' = [pc |-> "returned", fp |-> fp,
                         lifted |-> validation.lifted,
                         result |-> validateGeometry(geometry, fp)]
    /\ calls' = called(repeated(validation))
    /\ UNCHANGED <<geometry, stroke, ret, circle, motionStates, sweep, forces, app, channel, service, session, visualizer>>

\* calculateMotionRange works on the copy of line 316
NextPure ==
    \/ CallSolve
    \/ CallForces
    \/ CallValidate
    \/ StartSweep
    \/ SweepStep
    \/ SweepReturn

SpecPure == InitPure /\ [][NextPure]_vars

-----------------------------------------------------------------------------
(* websocket.js: WebSocketService and the sockets it creates (SpecSocket).   *)
(* api.js 352-507 is a second copy of the class; its send has no try/catch.  *)
(* A handler runs to its end before another starts, so while the loop of     *)
(* onopen runs no other action is taken.  A socket that close() was called   *)
(* on is "closing" until its close event is delivered; the handlers of a     *)
(* socket stay set when the service drops the socket.                        *)

ServiceVersions == {"websocket.js", "api.js"}

\* what send() is given; JSON.stringify throws for a circular object
SocketData == {"a", "b", "circular"}

stringifies(data) == data # "circular"

\* websocket.js 71-83
close(s) ==
    LET a == IF s.socket # 0
             THEN [s EXCEPT !.readyState[s.socket] =
                               IF @ \in {"connecting", "open"} THEN "closing" ELSE @,
                            !.socket = 0,
                            !.isConnected = FALSE]
             ELSE s
    IN  IF a.reconnectTimer # 0
        THEN [a EXCEPT !.timers = @ \ {a.reconnectTimer}, !.reconnectTimer = 0]
        ELSE a

\* websocket.js 16-24 (the handlers of lines 26-68 are the actions below)
connect(s) ==
    LET c == IF s.socket # 0 THEN close(s) ELSE s
    IN  [c EXCEPT !.socket = Len(c.readyState) + 1,
                  !.readyState = Append(@, "connecting")]

\* websocket.js 86-93: send() with the service connected; thrown tells that
\* the exception leaves send() (api.js 449-452 has no try)
sendConnected(s, data) ==
    IF stringifies(data)
    THEN [service |-> [s EXCEPT !.wire = Append(@, [data |-> data,
                                       readyState |-> s.readyState[s.socket]])],
          thrown |-> FALSE]
    ELSE IF s.version = "websocket.js"
         THEN [service |-> [s EXCEPT !.pendingMessages = Append(@, data)],
               thrown |-> FALSE]
         ELSE [service |-> s, thrown |-> TRUE]

\* websocket.js 85-103
send(s, data) ==
    IF s.isConnected /\ s.socket # 0 THEN sendConnected(s, data)
    ELSE LET q == [s EXCEPT !.pendingMessages = Append(@, data)]
         IN  [service |-> IF q.socket = 0 /\ q.reconnectTimer = 0
                          THEN connect(q) ELSE q,
              thrown |-> FALSE]

\* websocket.js 41-55: onclose
onclose(s) ==
    LET a == [s EXCEPT !.isConnected = FALSE]
    IN  IF a.reconnectTimer = 0
        THEN [a EXCEPT !.reconnectTimer = a.timersSet + 1,
                       !.timers = @ \union {a.timersSet + 1},
                       !.timersSet = @ + 1]
        ELSE a

-----------------------------------------------------------------------------
(* App.jsx: the component state, the requests it sends and the responses it  *)
(* handles (SpecApp).  The repository holds two App.jsx: src/frontend/src/   *)
(* App.jsx and src/unnamed/part_004, which adds mapPointsForBackend, the     *)
(* generateGraph field and updatedPoints.originalPoints.  The backend is not *)
(* part of the sources; its responses are inputs.  calculateForces runs with *)
(* the state of the current render.                                          *)

Versions == {"App.jsx", "part_004"}

\* part_004 36-42
defaultGeometryMapped ==
    [pivotBase |-> XY(0, 0), pivotArm |-> XY(100, 50),
     cylinderBase |-> XY(-20, -50), cylinderArm |-> XY(100, 50),
     cylinderMinLength |-> Scalar(100)]

defaultGeometryOf(version) ==
    IF version = "App.jsx" THEN defaultGeometry ELSE defaultGeometryMapped

\* the points that LinkageVisualizer lets the user drag, and where to
PointIds == {"pivotArm", "cylinderBase"}

DragPositions == {XY(200, 100)}

\* what the backend may answer
Messages == {"", "No valid configuration"}

UpdatedPoints ==
    { [pivotBase |-> XY(100, 200), pivotArm |-> XY(210, 90),
       cylinderBase |-> XY(100, 250), cylinderArm |-> XY(210, 90)] }

\* a response without error has no message
Responses ==
    { r \in { [via |-> "any", thrown |-> FALSE, error |-> e, message |-> m,
               forceAnalysis |-> f,
               updatedPoints |-> [form |-> u, points |-> up]] :
              e \in BOOLEAN, m \in Messages, f \in 0..1,
              u \in {"absent", "direct", "wrapped"}, up \in UpdatedPoints } :
      r.error \/ r.message = "" }

\* the fetch fails or the status is not ok: calculateForcesHttp throws
\* (api.js 15-17, 22-25)
Thrown == [NoResponse EXCEPT !.thrown = TRUE, !.message = "HTTP error"]

\* data.updatedPoints as an object: {originalPoints: ...} when wrapped
updatedPointsObject(u) ==
    IF u.form = "wrapped" THEN [originalPoints |-> [t |-> "object", x |-> 0, y |-> 0]]
    ELSE u.points

\* part_004 11-33: a copy of every key; a missing or zero cylinderMinLength
\* becomes 10
mapPointsForBackend(points) ==
    IF "cylinderMinLength" \in DOMAIN points /\ points["cylinderMinLength"].x # 0
    THEN points
    ELSE [k \in DOMAIN points \union {"cylinderMinLength"} |->
            IF k = "cylinderMinLength" THEN Scalar(10) ELSE points[k]]

\* App.jsx 112-116, part_004 142-149
requestData(a) ==
    IF a.version = "App.jsx"
    THEN [points |-> a.points, cylinderExtension |-> a.cylinderExtension,
          simulationMode |-> TRUE]
    ELSE [points |-> mapPointsForBackend(a.points),
          cylinderExtension |-> a.cylinderExtension,
          simulationMode |-> TRUE, generateGraph |-> FALSE]

\* message || 'An error occurred'
errorText(message) == IF message = "" THEN "An error occurred" ELSE message

\* App.jsx 69-94 without the return of line 77
messageHandlerWithoutReturn(a, data) ==
    [a EXCEPT !.calculating = FALSE,
              !.errorMessage = IF data.error THEN errorText(data.message) ELSE "",
              !.forceData = IF data.forceAnalysis # 0 THEN data.forceAnalysis
                            ELSE a.forceData,
              !.points = IF data.updatedPoints.form # "absent"
                         THEN updatedPointsObject(data.updatedPoints)
                         ELSE a.points]

\* App.jsx 69-94: messageHandler
messageHandler(a, data) ==
    IF data.error
    THEN [a EXCEPT !.calculating = FALSE, !.errorMessage = errorText(data.message)]
    ELSE [a EXCEPT !.calculating = FALSE,
                   !.errorMessage = "",
                   !.forceData = IF data.forceAnalysis # 0 THEN data.forceAnalysis
                                 ELSE a.forceData,
                   !.points = IF data.updatedPoints.form # "absent"
                              THEN updatedPointsObject(data.updatedPoints)
                              ELSE a.points]

\* App.jsx 132-146, part_004 165-195: what calculateForces does with the
\* result of calculateForcesHttp; part_004 takes originalPoints out of
\* updatedPoints
httpResult(a, results) ==
    IF results.error
    THEN [a EXCEPT !.calculating = FALSE, !.errorMessage = errorText(results.message)]
    ELSE [a EXCEPT !.calculating = FALSE,
                   !.errorMessage = "",
                   !.forceData = IF results.forceAnalysis # 0 THEN results.forceAnalysis
                                 ELSE a.forceData,
                   !.points = IF results.updatedPoints.form = "absent" THEN a.points
                              ELSE IF a.version = "part_004"
                                      /\ results.updatedPoints.form = "wrapped"
                                   THEN results.updatedPoints.points
                                   ELSE updatedPointsObject(results.updatedPoints)]

\* App.jsx 148-152
httpThrown(a) ==
    [a EXCEPT !.calculating = FALSE,
              !.errorMessage = "Error calculating forces: HTTP error"]

InitApp ==
    /\ geometry = SampleGeometry
    /\ stroke = 0
    /\ ret = RetIdle
    /\ circle = CircleIdle
    /\ motionStates = << >>
    /\ sweep = SweepIdle
    /\ validation = ValidationIdle
    /\ forces = ForcesIdle
    /\ calls = CallsIdle
    /\ \E v \in Versions :
          app = [AppIdle EXCEPT !.version = v, !.points = defaultGeometryOf(v)]
    /\ channel = ChannelIdle
    /\ service = ServiceIdle
    /\ session = SessionIdle
    /\ visualizer = VisualizerIdle

quiet == [channel EXCEPT !.request = NoRequest, !.response = NoResponse]

\* App.jsx 45-48: connectHandler
connected(a) == [a EXCEPT !.connectionStatus = "connected", !.errorMessage = ""]

\* App.jsx 50-52: disconnectHandler
disconnected(a) == [a EXCEPT !.connectionStatus = "disconnected"]

\* App.jsx 183-188; part_004 302-322 drags only a key that holds a point
pointDragged(a, pointId, newPosition) ==
    IF a.version = "part_004"
       /\ (pointId \notin DOMAIN a.points \/ a.points[pointId].t # "point")
    THEN a
    ELSE [a EXCEPT !.points =
            [k \in DOMAIN a.points \union {pointId} |->
               IF k = pointId THEN newPosition ELSE a.points[k]]]

\* the user drags a point
handlePointDrag ==
    /\ \E pointId \in PointIds, newPosition \in DragPositions :
          app' = pointDragged(app, pointId, newPosition)
    /\ channel' = quiet
    /\ UNCHANGED <<geometry, stroke, ret, circle, motionStates, sweep, validation, forces, calls, service, session, visualizer>>

\* App.jsx 191-193
handleCylinderExtensionChange ==
    /\ \E extension \in 0..MaxExtension :
          app' = [app EXCEPT !.cylinderExtension = extension]
    /\ channel' = quiet
    /\ UNCHANGED <<geometry, stroke, ret, circle, motionStates, sweep, validation, forces, calls, service, session, visualizer>>

\* App.jsx 197-200
resetState(a) ==
    [a EXCEPT !.points = defaultGeometryOf(a.version),
              !.cylinderExtension = 0,
              !.forceData = 0,
              !.errorMessage = ""]

\* App.jsx 196-210
handleReset ==
    /\ app' = resetState(app)
    /\ channel' = quiet
    /\ UNCHANGED <<geometry, stroke, ret, circle, motionStates, sweep, validation, forces, calls, service, session, visualizer>>

\* App.jsx 213-215 and the effect of lines 39-66
\* with useWebSocket set: the cleanup of line 58-60 and the else branch; with
\* useWebSocket clear: lines 41-55
toggleRealTimeUpdates ==
    /\ IF app.useWebSocket
       THEN /\ app' = [app EXCEPT !.useWebSocket = FALSE, !.connectionStatus = "http"]
            /\ service' = close(close(service))
            /\ session' = session
       ELSE /\ session.listeners < MaxListeners
            /\ Len(service.readyState) < MaxSockets
            /\ app' = [app EXCEPT !.useWebSocket = TRUE]
            /\ service' = connect(service)
            /\ session' = [session EXCEPT !.listeners = @ + 1]
    /\ channel' = quiet
    /\ UNCHANGED <<geometry, stroke, ret, circle, motionStates, sweep, validation, forces, calls, visualizer>>

\* App.jsx 45-48
connectHandler ==
    /\ session.listeners > 0
    /\ app' = connected(app)
    /\ channel' = quiet
    /\ UNCHANGED <<geometry, stroke, ret, circle, motionStates, sweep, validation, forces, calls, service, session, visualizer>>

\* App.jsx 50-52
disconnectHandler ==
    /\ session.listeners > 0
    /\ app' = disconnected(app)
    /\ channel' = quiet
    /\ UNCHANGED <<geometry, stroke, ret, circle, motionStates, sweep, validation, forces, calls, service, session, visualizer>>

\* App.jsx 105-129, up to the send or the await
calculateForces ==
    /\ ~ app.calculating
    /\ app' = [app EXCEPT !.calculating = TRUE]
    /\ IF app.useWebSocket /\ app.connectionStatus = "connected"
       THEN channel' = [pending |-> channel.pending,
                        request |-> [via |-> "ws", data |-> requestData(app)],
                        response |-> NoResponse]
       ELSE /\ channel.pending < MaxPending
            /\ channel' = [pending |-> channel.pending + 1,
                           request |-> [via |-> "http", data |-> requestData(app)],
                           response |-> NoResponse]
    /\ UNCHANGED <<geometry, stroke, ret, circle, motionStates, sweep, validation, forces, calls, service, session, visualizer>>

\* App.jsx 129-152: the await of calculateForcesHttp ends
httpResponse ==
    /\ channel.pending > 0
    /\ \E results \in Responses \union {Thrown} :
          /\ app' = IF results.thrown THEN httpThrown(app)
                    ELSE httpResult(app, results)
          /\ channel' = [pending |-> channel.pending - 1,
                          request |-> NoRequest,
                          response |-> [results EXCEPT !.via = "http"]]
    /\ UNCHANGED <<geometry, stroke, ret, circle, motionStates, sweep, validation, forces, calls, service, session, visualizer>>

\* websocket.js 61-68 calls the handler subscribed at App.jsx 97-102
webSocketMessage ==
    /\ app.useWebSocket
    /\ \E data \in Responses :
          /\ app' = messageHandler(app, data)
          /\ channel' = [pending |-> channel.pending,
                          request |-> NoRequest,
                          response |-> [data EXCEPT !.via = "ws"]]
    /\ UNCHANGED <<geometry, stroke, ret, circle, motionStates, sweep, validation, forces, calls, service, session, visualizer>>

NextApp ==
    \/ handlePointDrag
    \/ handleCylinderExtensionChange
    \/ handleReset
    \/ toggleRealTimeUpdates
    \/ connectHandler
    \/ disconnectHandler
    \/ calculateForces
    \/ httpResponse
    \/ webSocketMessage

SpecApp == InitApp /\ [][NextApp]_vars

\* the promise of calculateForcesHttp settles (api.js 8-26), and the server
\* sends its message while the App shows the socket connected
SpecAppFair ==
    /\ SpecApp
    /\ WF_vars(httpResponse)
    /\ WF_vars(webSocketMessage /\ app.connectionStatus = "connected")


InitSocket ==
    /\ geometry = SampleGeometry
    /\ stroke = 0
    /\ ret = RetIdle
    /\ circle = CircleIdle
    /\ motionStates = << >>
    /\ sweep = SweepIdle
    /\ validation = ValidationIdle
    /\ forces = ForcesIdle
    /\ calls = CallsIdle
    /\ app = AppIdle
    /\ channel = ChannelIdle
    /\ \E v \in ServiceVersions : service = [ServiceIdle EXCEPT !.version = v]
    /\ session = SessionIdle
    /\ visualizer = VisualizerIdle

\* no handler of the service is running
serviceIdle == service.flush.pc = "idle"

\* the caller calls connect()
Connect ==
    /\ serviceIdle
    /\ Len(service.readyState) < MaxSockets
    /\ service' = [connect(service) EXCEPT !.closedByCaller = FALSE]
    /\ UNCHANGED <<geometry, stroke, ret, circle, motionStates, sweep, validation, forces, calls, app, channel, session, visualizer>>

\* the caller calls close()
Close ==
    /\ serviceIdle
    /\ service' = [close(service) EXCEPT !.closedByCaller = TRUE]
    /\ UNCHANGED <<geometry, stroke, ret, circle, motionStates, sweep, validation, forces, calls, app, channel, session, visualizer>>

\* the caller calls send(data)
Send ==
    /\ serviceIdle
    /\ service.sends < MaxSends
    /\ Len(service.readyState) < MaxSockets
    /\ \E data \in SocketData :
          service' = [send(service, data).service EXCEPT
                        !.sends = @ + 1, !.closedByCaller = FALSE]
    /\ UNCHANGED <<geometry, stroke, ret, circle, motionStates, sweep, validation, forces, calls, app, channel, session, visualizer>>

\* websocket.js 26-31: the connection of a socket is made and onopen starts
SocketOpens ==
    /\ serviceIdle
    /\ \E id \in 1..Len(service.readyState) :
          /\ service.readyState[id] = "connecting"
          /\ service' = [service EXCEPT
                           !.readyState[id] = "open",
                           !.isConnected = TRUE,
                           !.reconnectTimer = 0,
                           !.listenersNotified = FALSE,
                           !.flush = [pc |-> "loop",
                                      queued |-> service.pendingMessages,
                                      sentBefore |-> Len(service.wire)]]
    /\ UNCHANGED <<geometry, stroke, ret, circle, motionStates, sweep, validation, forces, calls, app, channel, session, visualizer>>

\* websocket.js 32-35: one turn of the loop; an exception that leaves send()
\* ends onopen
FlushStep ==
    /\ service.flush.pc = "loop"
    /\ Len(service.pendingMessages) > 0
    /\ LET shifted == [service EXCEPT !.pendingMessages = Tail(@)]
           sent    == send(shifted, Head(service.pendingMessages))
       IN  service' = IF sent.thrown
                      THEN [sent.service EXCEPT !.flush.pc = "idle"]
                      ELSE sent.service
    /\ UNCHANGED <<geometry, stroke, ret, circle, motionStates, sweep, validation, forces, calls, app, channel, session, visualizer>>

\* websocket.js 32 and 37-38: the loop ends and the connect listeners are called
FlushDone ==
    /\ service.flush.pc = "loop"
    /\ Len(service.pendingMessages) = 0
    /\ service' = [service EXCEPT !.flush.pc = "idle", !.listenersNotified = TRUE]
    /\ app' = IF session.listeners > 0 THEN connected(app) ELSE app
    /\ UNCHANGED <<geometry, stroke, ret, circle, motionStates, sweep, validation, forces, calls, channel, session, visualizer>>

\* the connection of a socket fails or ends, or the close event of a socket
\* that close() was called on is delivered: onclose runs
SocketCloses ==
    /\ serviceIdle
    /\ service.reconnectTimer # 0 \/ service.timersSet < MaxTimers
    /\ \E id \in 1..Len(service.readyState) :
          /\ service.readyState[id] \in {"connecting", "open", "closing"}
          /\ service' = onclose([service EXCEPT !.readyState[id] = "closed"])
    /\ app' = IF session.listeners > 0 THEN disconnected(app) ELSE app
    /\ UNCHANGED <<geometry, stroke, ret, circle, motionStates, sweep, validation, forces, calls, channel, session, visualizer>>

\* websocket.js 50-53: a reconnect timer fires
ReconnectTimerFires ==
    /\ serviceIdle
    /\ Len(service.readyState) < MaxSockets
    /\ \E t \in service.timers :
          service' = connect([service EXCEPT !.timers = @ \ {t}])
    /\ UNCHANGED <<geometry, stroke, ret, circle, motionStates, sweep, validation, forces, calls, app, channel, session, visualizer>>

NextSocket ==
    \/ Connect
    \/ Close
    \/ Send
    \/ SocketOpens
    \/ FlushStep
    \/ FlushDone
    \/ SocketCloses
    \/ ReconnectTimerFires

SpecSocket == InitSocket /\ [][NextSocket]_vars

\* App.jsx 38-66 with the service of websocket.js: the user only toggles the
\* real-time mode; the App sends nothing
NextRealTime ==
    \/ toggleRealTimeUpdates
    \/ SocketOpens
    \/ FlushDone
    \/ SocketCloses
    \/ ReconnectTimerFires

SpecRealTime == InitApp /\ [][NextRealTime]_vars

\* the loop of onopen is not left half-way by the scheduler
SpecSocketFair ==
    SpecSocket /\ WF_vars(FlushStep) /\ WF_vars(FlushDone)

-----------------------------------------------------------------------------
(* App.jsx with auto-update on and the HTTP transport: the renders, the      *)
(* effects of lines 155-180 (part_004 270-310), their timers and the HTTP    *)
(* requests in flight (SpecSession).  React 18 (createRoot) renders once     *)
(* after each handler and then runs the effects whose dependencies changed.  *)

\* the point that the user drags in SpecSession
SessionPointIds == {"cylinderBase"}

\* what the backend answers in SpecSession: no error, with or without
\* updatedPoints
SessionResponses ==
    { r \in Responses : /\ ~ r.error
                        /\ r.forceAnalysis = 0
                        /\ r.updatedPoints.form \in {"absent", "direct"} }

\* App.jsx 153: useCallback makes a new calculateForces when one of these
\* changes from render a0 to render a1
calculateForcesChanged(a0, a1) ==
    \/ a0.points # a1.points
    \/ a0.cylinderExtension # a1.cylinderExtension
    \/ a0.connectionStatus # a1.connectionStatus
    \/ a0.useWebSocket # a1.useWebSocket
    \/ a0.calculating # a1.calculating

\* App.jsx 155-180, part_004 270-310: the cleanups and the effects after the
\* render of a1 that follows the render of a0
autoUpdateEffects(a0, a1, ses) ==
    IF ~ calculateForcesChanged(a0, a1) THEN ses
    ELSE IF a1.version = "App.jsx"
    THEN LET pointsChanged    == a1.points # ses.prevPointsRef
             extensionChanged == a1.cylinderExtension # ses.prevExtensionRef
         IN  IF ~ pointsChanged /\ ~ extensionChanged
             THEN [ses EXCEPT !.debounceTimer = FALSE]
             ELSE [ses EXCEPT !.prevPointsRef = a1.points,
                              !.prevExtensionRef = a1.cylinderExtension,
                              !.debounceTimer = TRUE]
    ELSE [ses EXCEPT !.extensionTimer = (a1.cylinderExtension # ses.prevExtensionRef),
                     !.prevExtensionRef = a1.cylinderExtension,
                     !.debounceTimer = (a1.points # ses.prevPointsRef),
                     !.prevPointsRef = a1.points]

\* the session when a handler that sends nothing and handles no response ends
unhandled(ses) == [ses EXCEPT !.handled = NoneHandled]

\* App.jsx 105-129 with the HTTP transport, up to the await, called with the
\* points, the extension and the calculating flag of the render it was made in
calculateForcesHttpStart(closure, a, ses) ==
    IF closure.calculating THEN [app |-> a, session |-> ses]
    ELSE [app |-> [a EXCEPT !.calculating = TRUE],
          session |-> [ses EXCEPT
             !.inflight = Append(@, [kind |-> "forces", points |-> closure.points]),
             !.requested = [points |-> closure.points,
                            cylinderExtension |-> closure.cylinderExtension]]]

\* part_004 233-263: what generateGraph does with the result
graphResult(a, results) ==
    IF results.error
    THEN [a EXCEPT !.errorMessage =
            IF results.message = "" THEN "An error occurred generating graph"
            ELSE results.message]
    ELSE [a EXCEPT !.errorMessage = "",
                   !.forceData = IF results.forceAnalysis # 0 THEN results.forceAnalysis
                                 ELSE a.forceData,
                   !.points = IF results.updatedPoints.form = "absent" THEN a.points
                              ELSE IF results.updatedPoints.form = "wrapped"
                                   THEN results.updatedPoints.points
                                   ELSE updatedPointsObject(results.updatedPoints)]

\* s without its element at position i
without(s, i) == [j \in 1..(Len(s) - 1) |-> IF j < i THEN s[j] ELSE s[j + 1]]

InitSession ==
    /\ geometry = SampleGeometry
    /\ stroke = 0
    /\ ret = RetIdle
    /\ circle = CircleIdle
    /\ motionStates = << >>
    /\ sweep = SweepIdle
    /\ validation = ValidationIdle
    /\ forces = ForcesIdle
    /\ calls = CallsIdle
    /\ \E v \in Versions :
          /\ app = [AppIdle EXCEPT !.version = v, !.points = defaultGeometryOf(v)]
          /\ session = [SessionIdle EXCEPT
                          !.prevPointsRef = defaultGeometryOf(v),
                          !.requested.points = defaultGeometryOf(v)]
    /\ channel = ChannelIdle
    /\ service = ServiceIdle
    /\ visualizer = VisualizerIdle

\* App.jsx 183-188 and the render that follows
Drag ==
    /\ \E pointId \in SessionPointIds, newPosition \in DragPositions :
          LET a == pointDragged(app, pointId, newPosition)
          IN  /\ app' = a
              /\ session' = autoUpdateEffects(app, a, unhandled(session))
    /\ UNCHANGED <<geometry, stroke, ret, circle, motionStates, sweep, validation, forces, calls, channel, service, visualizer>>

\* App.jsx 191-193 and the render that follows
ExtensionChange ==
    /\ \E extension \in 0..MaxExtension :
          LET a == [app EXCEPT !.cylinderExtension = extension]
          IN  /\ app' = a
              /\ session' = autoUpdateEffects(app, a, unhandled(session))
    /\ UNCHANGED <<geometry, stroke, ret, circle, motionStates, sweep, validation, forces, calls, channel, service, visualizer>>

\* App.jsx 196-210 and the render that follows: the timer calls the
\* calculateForces of the render in which Reset was clicked
Reset ==
    /\ ~ session.resetTimer.pending
    /\ LET a   == resetState(app)
           ses == [unhandled(session) EXCEPT
                     !.prevPointsRef = defaultGeometry,
                     !.prevExtensionRef = 0,
                     !.resetTimer = [pending |-> TRUE, points |-> app.points,
                                     cylinderExtension |-> app.cylinderExtension,
                                     calculating |-> app.calculating]]
       IN  /\ app' = a
           /\ session' = autoUpdateEffects(app, a, ses)
    /\ UNCHANGED <<geometry, stroke, ret, circle, motionStates, sweep, validation, forces, calls, channel, service, visualizer>>

\* the timer of App.jsx 176 (part_004 306) fires
DebounceTimerFires ==
    /\ session.debounceTimer
    /\ Len(session.inflight) < MaxInflight
    /\ LET started == calculateForcesHttpStart(app, app,
                         [unhandled(session) EXCEPT !.debounceTimer = FALSE])
       IN  /\ app' = started.app
           /\ session' = autoUpdateEffects(app, started.app, started.session)
    /\ UNCHANGED <<geometry, stroke, ret, circle, motionStates, sweep, validation, forces, calls, channel, service, visualizer>>

\* the timer of part_004 278-280 fires
ExtensionTimerFires ==
    /\ session.extensionTimer
    /\ Len(session.inflight) < MaxInflight
    /\ LET started == calculateForcesHttpStart(app, app,
                         [unhandled(session) EXCEPT !.extensionTimer = FALSE])
       IN  /\ app' = started.app
           /\ session' = autoUpdateEffects(app, started.app, started.session)
    /\ UNCHANGED <<geometry, stroke, ret, circle, motionStates, sweep, validation, forces, calls, channel, service, visualizer>>

\* the timer of App.jsx 208 fires
ResetTimerFires ==
    /\ session.resetTimer.pending
    /\ Len(session.inflight) < MaxInflight
    /\ LET started == calculateForcesHttpStart(session.resetTimer, app,
                         [unhandled(session) EXCEPT !.resetTimer = NoResetTimer])
       IN  /\ app' = started.app
           /\ session' = autoUpdateEffects(app, started.app, started.session)
    /\ UNCHANGED <<geometry, stroke, ret, circle, motionStates, sweep, validation, forces, calls, channel, service, visualizer>>

\* part_004 205-231: the user clicks Generate Graph
GenerateGraph ==
    /\ app.version = "part_004"
    /\ ~ session.generatingGraph
    /\ Len(session.inflight) < MaxInflight
    /\ session' = [unhandled(session) EXCEPT
                     !.generatingGraph = TRUE,
                     !.inflight = Append(@, [kind |-> "graph", points |-> app.points])]
    /\ UNCHANGED <<geometry, stroke, ret, circle, motionStates, sweep, validation, forces, calls, app, channel, service, visualizer>>

\* App.jsx 129-152, part_004 231-267: the await of one of the requests in
\* flight ends, and the render that follows
HttpSettles ==
    /\ \E i \in 1..Len(session.inflight), results \in SessionResponses :
          LET r   == session.inflight[i]
              a   == IF r.kind = "forces" THEN httpResult(app, results)
                     ELSE graphResult(app, results)
              ses == [session EXCEPT
                        !.inflight = without(@, i),
                        !.generatingGraph = IF r.kind = "graph" THEN FALSE ELSE @,
                        !.handled = [kind |-> r.kind, points |-> r.points,
                                     position |-> i]]
          IN  /\ app' = a
              /\ session' = autoUpdateEffects(app, a, ses)
    /\ UNCHANGED <<geometry, stroke, ret, circle, motionStates, sweep, validation, forces, calls, channel, service, visualizer>>

NextSession ==
    \/ Drag
    \/ ExtensionChange
    \/ Reset
    \/ DebounceTimerFires
    \/ ExtensionTimerFires
    \/ ResetTimerFires
    \/ GenerateGraph
    \/ HttpSettles

SpecSession == InitSession /\ [][NextSession]_vars

\* a timer that is set fires, and the promise of calculateForcesHttp settles
SpecSessionFair ==
    /\ SpecSession
    /\ WF_vars(DebounceTimerFires)
    /\ WF_vars(ExtensionTimerFires)
    /\ WF_vars(ResetTimerFires)
    /\ WF_vars(HttpSettles)

-----------------------------------------------------------------------------
(* Progress_2.24.25.md 45-383: LinkageVisualizer in design mode, its points  *)
(* and its undo history (SpecDesign).                                        *)

\* the points that the user drags
DraggedPoints == {"point1", "pointA"}

\* (clientX - initialX) / SCALE_FACTOR and -(clientY - initialY) / SCALE_FACTOR
\* of a mouse move
MouseMoves == {[dx |-> 1, dy |-> 0], [dx |-> 0, dy |-> -1]}

\* config.points of the files that the user loads
LoadedPoints == {[point1 |-> [x |-> 2, y |-> 2], pointA |-> [x |-> 0, y |-> 9]]}

\* what setPoints gets from an index outside the array
undefinedPoints == [undefined |-> TRUE]

\* history[i] of a JavaScript array
element(history, i) ==
    IF i \in 0..(Len(history) - 1) THEN history[i + 1] ELSE undefinedPoints

\* Progress_2.24.25.md 117-123: the render throws on points that are
\* undefined, and React removes the component
mounted == visualizer.points # undefinedPoints

\* prev.slice(0, n) of a JavaScript array
slice(s, n) == SubSeq(s, 1, IF n < Len(s) THEN n ELSE Len(s))

\* Progress_2.24.25.md 103-111: handleUp pushes the points and cuts at the
\* historyIndex of the render in which the drag started; React passes the
\* current history and index to the updaters
handleUp(v) ==
    [v EXCEPT !.history = Append(slice(v.history, v.drag.historyIndex + 1),
                                 v.drag.points),
              !.historyIndex = v.historyIndex + 1,
              !.drag = NoDrag,
              !.last = "other"]

InitDesign ==
    /\ geometry = SampleGeometry
    /\ stroke = 0
    /\ ret = RetIdle
    /\ circle = CircleIdle
    /\ motionStates = << >>
    /\ sweep = SweepIdle
    /\ validation = ValidationIdle
    /\ forces = ForcesIdle
    /\ calls = CallsIdle
    /\ app = AppIdle
    /\ channel = ChannelIdle
    /\ service = ServiceIdle
    /\ session = SessionIdle
    /\ visualizer = VisualizerIdle

\* Progress_2.24.25.md 78-86, 113-114: mousedown on a point
MouseDown ==
    /\ mounted
    /\ ~ visualizer.drag.active
    /\ Len(visualizer.history) < MaxHistory
    /\ \E pointId \in DraggedPoints :
          visualizer' = [visualizer EXCEPT
                           !.drag = [active |-> TRUE, pointId |-> pointId,
                                     points |-> visualizer.points,
                                     historyIndex |-> visualizer.historyIndex],
                           !.last = "other"]
    /\ UNCHANGED <<geometry, stroke, ret, circle, motionStates, sweep, validation, forces, calls, app, channel, service, session>>

\* Progress_2.24.25.md 88-101: handleMove
MouseMove ==
    /\ mounted
    /\ visualizer.drag.active
    /\ \E move \in MouseMoves :
          LET d            == visualizer.drag
              initialPoint == d.points[d.pointId]
          IN  visualizer' = [visualizer EXCEPT
                               !.points = [d.points EXCEPT ![d.pointId] =
                                             [x |-> initialPoint.x + move.dx,
                                              y |-> initialPoint.y + move.dy]]]
    /\ UNCHANGED <<geometry, stroke, ret, circle, motionStates, sweep, validation, forces, calls, app, channel, service, session>>

\* Progress_2.24.25.md 103-111: mouseup
MouseUp ==
    /\ mounted
    /\ visualizer.drag.active
    /\ visualizer' = handleUp(visualizer)
    /\ UNCHANGED <<geometry, stroke, ret, circle, motionStates, sweep, validation, forces, calls, app, channel, service, session>>

\* Progress_2.24.25.md 126-131; the button is disabled at index 0
handleUndo ==
    /\ mounted
    /\ ~ visualizer.drag.active
    /\ visualizer.historyIndex > 0
    /\ visualizer' = [visualizer EXCEPT
                        !.historyIndex = @ - 1,
                        !.points = element(visualizer.history, visualizer.historyIndex - 1),
                        !.last = "undo",
                        !.before = visualizer.points]
    /\ UNCHANGED <<geometry, stroke, ret, circle, motionStates, sweep, validation, forces, calls, app, channel, service, session>>

\* Progress_2.24.25.md 133-138
handleRedo ==
    /\ mounted
    /\ ~ visualizer.drag.active
    /\ visualizer.historyIndex < Len(visualizer.history) - 1
    /\ visualizer' = [visualizer EXCEPT
                        !.historyIndex = @ + 1,
                        !.points = element(visualizer.history, visualizer.historyIndex + 1),
                        !.last = IF visualizer.last = "undo" THEN "undo, redo"
                                 ELSE "other"]
    /\ UNCHANGED <<geometry, stroke, ret, circle, motionStates, sweep, validation, forces, calls, app, channel, service, session>>

\* Progress_2.24.25.md 159-168: reader.onload of handleLoad
handleLoad ==
    /\ mounted
    /\ Len(visualizer.history) < MaxHistory
    /\ \E points \in LoadedPoints :
          visualizer' = [visualizer EXCEPT
                           !.points = points,
                           !.history = Append(@, points),
                           !.historyIndex = @ + 1,
                           !.last = "other"]
    /\ UNCHANGED <<geometry, stroke, ret, circle, motionStates, sweep, validation, forces, calls, app, channel, service, session>>

\* Progress_2.24.25.md 180-184: the Reset button
ResetDesign ==
    /\ mounted
    /\ ~ visualizer.drag.active
    /\ visualizer' = [visualizer EXCEPT
                        !.points = DEFAULT_POSITIONS,
                        !.history = <<DEFAULT_POSITIONS>>,
                        !.historyIndex = 0,
                        !.last = "other"]
    /\ UNCHANGED <<geometry, stroke, ret, circle, motionStates, sweep, validation, forces, calls, app, channel, service, session>>

NextDesign ==
    \/ MouseDown
    \/ MouseMove
    \/ MouseUp
    \/ handleUndo
    \/ handleRedo
    \/ handleLoad
    \/ ResetDesign

SpecDesign == InitDesign /\ [][NextDesign]_vars

-----------------------------------------------------------------------------
(* Properties of calculateGeometryFromStroke, checked under Spec *)

Returned == ret.pc = "returned"

Complete(g) == \A r \in Roles : g[r].kind = "pt"

\* the lengths the mechanism has in the base geometry, squared
BaseArmSq == gridDistanceSq(geometry["pivotPoint"], geometry["armEnd"])

BaseCrossLinkSq == gridDistanceSq(geometry["cylinderRod"], geometry["armEnd"])

BaseCylinder == ISqrt(gridDistanceSq(geometry["cylinderBase"], geometry["cylinderRod"]))

\* distance(p, q)^2 = valSq; false when a coordinate is NaN
LengthSqIs(p, q, valSq) ==
    /\ p.kind = "pt" /\ q.kind = "pt"
    /\ NumEq(distanceSq(p, q), Whole(valSq))

\* distance(a, p) <= distance(b, p); false when a coordinate is NaN
NotFarther(a, b, p) ==
    /\ a.kind = "pt" /\ b.kind = "pt"
    /\ NumSign(NumSub(distanceSq(a, p), distanceSq(b, p))) <= 0

\* C1: when the two circles of a stroke have no intersection,
\* calculateGeometryFromStroke signals the unreachable configuration: what it
\* returns is not a geometry whose armEnd is the unmodified base armEnd.
C1_UnreachableIsSignalled ==
    (Returned /\ ret.solve = "none")
        => ret.points["armEnd"] # geometry["armEnd"]

\* C2: whenever circleIntersection found an intersection, the returned
\* geometry has distance(pivotPoint, armEnd) = the base arm length and
\* distance(cylinderRod, armEnd) = the base cross-link length.
C2_LinkLengthsPreserved ==
    (Returned /\ ret.solve = "found")
        => /\ LengthSqIs(ret.points["pivotPoint"], ret.points["armEnd"], BaseArmSq)
           /\ LengthSqIs(ret.points["cylinderRod"], ret.points["armEnd"],
                         BaseCrossLinkSq)

\* C3: when circleIntersection returns two candidates, the returned armEnd is
\* one of them, it is not farther from the base armEnd than the other one, and
\* on a tie (of the distances as the program computed them) it is the first.
C3_ClosestCandidateChosen ==
    (Returned /\ ret.solve = "found")
        => LET int1 == ret.intersections[1]
               int2 == ret.intersections[2]
               ae   == ret.points["armEnd"]
               old  == geometry["armEnd"]
           IN /\ ae \in {int1, int2}
              /\ ae = int1 => NotFarther(int1, int2, old)
              /\ ae = int2 => NotFarther(int2, int1, old)
              /\ (NotFarther(int1, int2, old) /\ NotFarther(int2, int1, old)
                    /\ ret.fp # "farther")
                    => ae = int1

\* C7: for every base geometry and stroke the returned geometry has the
\* cylinderBase and the pivotPoint of the base geometry.
C7_MountsUnchanged ==
    Returned
        => /\ ret.points["cylinderBase"] = geometry["cylinderBase"]
           /\ ret.points["pivotPoint"] = geometry["pivotPoint"]

\* C7 witness: a call that moved cylinderRod and armEnd
C7_Witness ==
    /\ Returned /\ ret.solve = "found"
    /\ ret.points["cylinderRod"] # geometry["cylinderRod"]
    /\ ret.points["armEnd"] # geometry["armEnd"]
    /\ ret.points["armEnd"].kind = "pt"

\* C8: the returned cylinderRod lies on the ray from cylinderBase through the
\* base cylinderRod (along +x when the two coincide) at the distance
\* max(0.1, baseLength + stroke), so the cylinder is never shorter than 0.1.
C8_CylinderRodOnAxisAtClampedLength ==
    (Returned /\ Complete(geometry))
        => LET cb  == geometry["cylinderBase"]
               old == geometry["cylinderRod"]
               new == ret.points["cylinderRod"]
               len == IF BaseCylinder + stroke >= MinCylinderLength
                      THEN BaseCylinder + stroke ELSE MinCylinderLength
               ox  == IF old = cb THEN 1 ELSE old.x - cb.x
               oy  == IF old = cb THEN 0 ELSE old.y - cb.y
           IN /\ IsGrid(new)
              /\ gridDistanceSq(cb, new) = len * len
              /\ ox * (new.y - cb.y) - oy * (new.x - cb.x) = 0
              /\ ox * (new.x - cb.x) + oy * (new.y - cb.y) > 0
              /\ gridDistanceSq(cb, new) >= MinCylinderLength * MinCylinderLength

\* C8 witness: a retraction below the floor was clamped
C8_Witness ==
    /\ Returned /\ Complete(geometry)
    /\ BaseCylinder > 0 /\ BaseCylinder + stroke < 0
    /\ gridDistanceSq(geometry["cylinderBase"], ret.points["cylinderRod"])
           = MinCylinderLength * MinCylinderLength

\* C9: at stroke 0 the returned cylinderRod and armEnd are those of the base
\* geometry, for every base geometry with the four points.
C9_ZeroStrokeIdentity ==
    (Returned /\ Complete(geometry) /\ stroke = 0)
        => /\ ret.points["cylinderRod"] = geometry["cylinderRod"]
           /\ ret.points["armEnd"] = geometry["armEnd"]

-----------------------------------------------------------------------------
(* Properties of circleIntersection, checked under SpecCircle *)

CircleReturned == circle.pc = "returned"

CircleDSq == gridDistanceSq(circle.center1, circle.center2)

\* the point lies on the circle around c with the squared radius rSq
OnCircle(p, c, rSq) == LengthSqIs(c, p, rSq)

XOf(p) == Num(p.x, p.rx, p.k, p.den)

YOf(p) == Num(p.y, p.ry, p.k, p.den)

NumAdd(a, b) == NumSub(a, Num(-b.u, -b.v, b.k, b.den))

NumTimes(i, n) == Num(i * n.u, i * n.v, n.k, n.den)

\* a and b are mirror images across the line c1-c2: a - b is perpendicular to
\* c2 - c1 and the midpoint of a and b lies on the line
MirrorImages(a, b, c1, c2) ==
    LET dx == c2.x - c1.x
        dy == c2.y - c1.y
    IN /\ a.kind = "pt" /\ b.kind = "pt"
       /\ NumEq(NumTimes(dx, NumSub(XOf(a), XOf(b))),
                NumTimes(-dy, NumSub(YOf(a), YOf(b))))
       /\ NumEq(NumTimes(dx, NumSub(NumAdd(YOf(a), YOf(b)), Whole(2 * c1.y))),
                NumTimes(dy, NumSub(NumAdd(XOf(a), XOf(b)), Whole(2 * c1.x))))

\* C4: circleIntersection returns null exactly when d > r1 + r2, or
\* d < |r1 - r2|, or d = 0 and r1 = r2 (as the doubles compare: at a tangency
\* whose doubles are rounded, when they compare as apart), and an array of
\* exactly two points otherwise.
C4_NullExactlyWhenNoCrossing ==
    CircleReturned
        => LET d2   == CircleDSq
               q1   == circle.radius1Sq
               q2   == circle.radius2Sq
               far  == d2 > q1 + q2 /\ (d2 - q1 - q2) * (d2 - q1 - q2) > 4 * q1 * q2
               near == d2 < q1 + q2 /\ (q1 + q2 - d2) * (q1 + q2 - d2) > 4 * q1 * q2
               tie  == d2 > 0 /\ (d2 - q1 - q2) * (d2 - q1 - q2) = 4 * q1 * q2
               same == d2 = 0 /\ q1 = q2
           IN /\ (circle.result = << >>)
                    <=> (far \/ near \/ same \/ (tie /\ circle.fp = "apart"))
              /\ circle.result # << >> => Len(circle.result) = 2

\* C4 witness: coincident circles of a positive radius, answered with null
C4_Witness ==
    /\ CircleReturned /\ CircleDSq = 0
    /\ circle.radius1Sq = circle.radius2Sq /\ circle.radius1Sq > 0
    /\ circle.result = << >>

\* C5: every returned point lies on both circles and the two points are
\* mirror images across the line of the centers; (0,0) r=5 with (8,0) r=5
\* gives (4,3) and (4,-3); (0,0) r=1 with (10,0) r=1 gives null.
C5_PointsOnBothCircles ==
    CircleReturned
        => /\ circle.result # << >>
                => /\ \A i \in 1..2 :
                        /\ OnCircle(circle.result[i], circle.center1, circle.radius1Sq)
                        /\ OnCircle(circle.result[i], circle.center2, circle.radius2Sq)
                   /\ MirrorImages(circle.result[1], circle.result[2],
                                   circle.center1, circle.center2)
           /\ (circle.center1 = Pt(0, 0) /\ circle.center2 = Pt(8, 0)
                 /\ circle.radius1Sq = 25 /\ circle.radius2Sq = 25)
                => {circle.result[1], circle.result[2]} = {Pt(4, 3), Pt(4, -3)}
           /\ (circle.center1 = Pt(0, 0) /\ circle.center2 = Pt(10, 0)
                 /\ circle.radius1Sq = 1 /\ circle.radius2Sq = 1)
                => circle.result = << >>

\* C6: whenever the computation of a, h and p2 is reached, d > 0 and the
\* radicand r1^2 - a^2 is >= 0, and no returned coordinate is NaN.
C6_NoNaN ==
    (CircleReturned /\ circle.result # << >>)
        => /\ CircleDSq > 0
           /\ radicandSign(CircleDSq, circle.radius1Sq, circle.radius2Sq,
                           circle.fp) >= 0
           /\ \A i \in 1..2 : circle.result[i].kind = "pt"


-----------------------------------------------------------------------------
(* Claims about calculateMotionRange, checked under SpecMotion *)

\* side of the line pivotPoint - cylinderRod on which armEnd lies: the sign of
\* (cylinderRod - pivotPoint) x (armEnd - pivotPoint)
branchSide(g) ==
    LET pv == g["pivotPoint"]
        dx == g["cylinderRod"].x - pv.x
        dy == g["cylinderRod"].y - pv.y
    IN  NumSign(NumSub(NumTimes(dx, NumSub(YOf(g["armEnd"]), Whole(pv.y))),
                       NumTimes(dy, NumSub(XOf(g["armEnd"]), Whole(pv.x)))))

\* sample n of the sweep holds a solved, finite mechanism whose branch was
\* chosen by a strict comparison of line 154
Solved(n) ==
    LET ints == motionStates[n].intersections
    IN  /\ motionStates[n].solve = "found"
        /\ motionStates[n].geometry["armEnd"].kind = "pt"
        /\ ~ NumEq(distanceSq(ints[1], geometry["armEnd"]),
                   distanceSq(ints[2], geometry["armEnd"]))

\* C10: in a sweep of calculateMotionRange the armEnd of every sample lies on
\* the same side of the line pivotPoint - cylinderRod as the armEnd of the
\* preceding sample (stated for the samples whose branch does not hang on the
\* rounding of a tie)
C10_NoBranchFlip ==
    \A n \in 2..Len(motionStates) :
       (sweep.steps = Steps /\ Solved(n - 1) /\ Solved(n))
          => branchSide(motionStates[n - 1].geometry)
               * branchSide(motionStates[n].geometry) # -1

-----------------------------------------------------------------------------
(* Claims about validateGeometry, checked under SpecValidate *)

ValidationReturned == validation.pc = "returned"

\* the message is in the list of constraints
Flagged(message) ==
    \E n \in 1..Len(validation.result.constraints) :
       validation.result.constraints[n] = message

\* x + y < z and x + y = z for the lengths x, y, z given by their squares
RealSumLt(xSq, ySq, zSq) ==
    zSq > xSq + ySq /\ (zSq - xSq - ySq) * (zSq - xSq - ySq) > 4 * xSq * ySq

RealSumEq(xSq, ySq, zSq) ==
    zSq >= xSq + ySq /\ (zSq - xSq - ySq) * (zSq - xSq - ySq) = 4 * xSq * ySq

\* x + y <= z for the lengths as validateGeometry computed them
ComputedSumLeq(xSq, ySq, zSq) ==
    \/ RealSumLt(xSq, ySq, zSq)
    \/ RealSumEq(xSq, ySq, zSq) /\ validation.fp # "apart"

C12_ValidIffNoConstraints ==
    ValidationReturned
        => /\ "valid" \in DOMAIN validation.result
           /\ validation.result.valid \in BOOLEAN
           /\ "constraints" \in DOMAIN validation.result
           /\ validation.result.valid <=> validation.result.constraints = << >>

-----------------------------------------------------------------------------
(* Claims about the sequence of calculateMotionRange, checked under SpecMotion *)

SweepReturned == sweep.pc = "returned"

\* C13: for N >= 1 and a geometry with the four points calculateMotionRange
\* returns N + 1 states in the order of the sweep; state i has
\* strokePercentage = 100 * i / N and stroke = -baseLength / 2 + i * baseLength / N,
\* so strokePercentage increases strictly from 0 to 100.
C13_SweepSequence ==
    (SweepReturned /\ Complete(geometry) /\ sweep.steps >= 1)
        => LET N == sweep.steps IN
           /\ Len(motionStates) = N + 1
           /\ \A i \in 0..N :
                LET m == motionStates[i + 1] IN
                /\ m.strokePercentage.den > 0
                /\ m.strokePercentage.num * N = 100 * i * m.strokePercentage.den
                /\ ~ m.stroke.nan
                /\ 2 * N * m.stroke.val = BaseCylinder * (2 * i - N)
           /\ \A i \in 1..N :
                motionStates[i].strokePercentage.num
                      * motionStates[i + 1].strokePercentage.den
                   < motionStates[i + 1].strokePercentage.num
                      * motionStates[i].strokePercentage.den
           /\ motionStates[1].strokePercentage.num = 0
           /\ motionStates[N + 1].strokePercentage.num
                 = 100 * motionStates[N + 1].strokePercentage.den

\* C13 witness: a returned sweep of Steps + 1 samples of a cylinder with a
\* length, from stroke -baseLength / 2 to +baseLength / 2
C13_Witness ==
    /\ SweepReturned /\ Complete(geometry)
    /\ sweep.steps = Steps /\ BaseCylinder > 0
    /\ Len(motionStates) = Steps + 1
    /\ 2 * motionStates[1].stroke.val = -BaseCylinder
    /\ 2 * motionStates[Steps + 1].stroke.val = BaseCylinder

\* C14: a sample whose stroke yields no circle intersection is left out of the
\* returned sequence: no returned state carries a geometry whose armEnd stayed
\* at the base position because the solve failed.
C14_UnreachableSamplesOmitted ==
    SweepReturned
        => \A n \in 1..Len(motionStates) : motionStates[n].solve # "none"

\* C15: for a geometry that lacks one of the four points calculateMotionRange
\* (and calculateGeometryFromStroke and calculateBasicForces, which it calls)
\* does not throw and does not return a sequence of samples.
C15_MissingPointRejected ==
    missingPoint(geometry)
        => /\ sweep.pc # "thrown"
           /\ SweepReturned => Len(motionStates) = 0

-----------------------------------------------------------------------------
(* SpecForces *)

ForcesReturned == forces.pc = "returned" /\ ~forces.result.isNull

\* C16: in every result of calculateBasicForces for a geometry with its four
\* points, zero arm or cylinder length included, efficiency equals
\* 100 * mechanicalAdvantage / (armLength / cylinderLength) of the same result
\* and mechanicalAdvantage equals outputForce / cylinderForce
C16_EfficiencyConsistent ==
    ForcesReturned
        => LET r == forces.result
           IN  /\ XEq(r.efficiency,
                      XDiv(XMul(XNum(100, 1), r.mechanicalAdvantage),
                           XDiv(r.armLength, r.cylinderLength)))
               /\ XEq(r.mechanicalAdvantage, XDiv(r.outputForce, r.cylinderForce))

-----------------------------------------------------------------------------
(* SpecPure *)

-----------------------------------------------------------------------------
(* SpecMotion *)

\* C18: calculateMotionRange called with a step count of 0 does not return a
\* sequence of states
C18_ZeroStepsRejected == ~(SweepReturned /\ sweep.steps = 0)

-----------------------------------------------------------------------------
(* SpecApp *)

\* C19: every calculation request the App sends, over HTTP or WebSocket, has
\* the fields points, cylinderExtension and simulationMode, and its points
\* hold cylinderBase, cylinderRod, pivotPoint and armEnd
C19_RequestHasRequiredRoles ==
    channel.request.via # "none"
        => /\ {"points", "cylinderExtension", "simulationMode"}
                 \subseteq DOMAIN channel.request.data
           /\ Roles \subseteq DOMAIN channel.request.data.points

\* the step handles a response: a result of calculateForcesHttp or a
\* WebSocket message
Handled == channel'.response.via # "none" /\ ~ channel'.response.thrown

\* what the response of the step lets change
OnlyCarriedDataApplied ==
    /\ app'.points # app.points
          => /\ ~ channel'.response.error
             /\ channel'.response.updatedPoints.form # "absent"
    /\ app'.forceData # app.forceData
          => /\ ~ channel'.response.error
             /\ channel'.response.forceAnalysis # 0

-----------------------------------------------------------------------------
(* SpecMotion *)

-----------------------------------------------------------------------------
(* SpecValidate *)

\* the three points of the triangle test, as passed, lie on one line
Collinear ==
    \/ geometry["pivotPoint"] = geometry["cylinderRod"]
    \/ /\ ~ validation.lifted
       /\ (geometry["cylinderRod"].x - geometry["pivotPoint"].x)
             * (geometry["armEnd"].y - geometry["pivotPoint"].y)
          = (geometry["cylinderRod"].y - geometry["pivotPoint"].y)
             * (geometry["armEnd"].x - geometry["pivotPoint"].x)

\* C22: for a geometry with the four points validateGeometry reports one of
\* the three triangle messages only if pivotPoint, cylinderRod and armEnd are
\* on one line or coincide
C22_TriangleMessageOnlyIfCollinear ==
    (ValidationReturned /\ Complete(geometry))
        => \/ Collinear
           \/ /\ ~ Flagged(TooShortToConnect)
              /\ ~ Flagged(CrossLinkTooLong)
              /\ ~ Flagged(ArmTooLong)

-----------------------------------------------------------------------------
(* SpecSocket *)

\* C23: after close() and until connect() or send() is called, no reconnect
\* timer is pending and the service has no socket, also after the close event
\* of the closed socket has been delivered
C23_NoReconnectAfterClose ==
    service.closedByCaller => service.timers = {} /\ service.socket = 0

\* what the socket took since it opened
wireSinceOpen ==
    [i \in 1..(Len(service.wire) - service.flush.sentBefore) |->
        service.wire[service.flush.sentBefore + i].data]

\* the loop of onopen is over, the messages that were queued when the socket
\* opened went to the socket once each and in the order of the queue, the
\* queue is empty and the connect listeners have been called
Flushed ==
    /\ service.flush.pc = "idle"
    /\ service.listenersNotified
    /\ service.pendingMessages = << >>
    /\ wireSinceOpen = service.flush.queued

\* C24: the messages queued while the service was not connected are, once a
\* socket opens, all given to that socket exactly once and in the order of the
\* queue before the connect listeners are called, the queue is then empty, and
\* nothing is ever given to a socket that is not open
C24_QueueFlushedOnOpen ==
    /\ [](\A i \in 1..Len(service.wire) : service.wire[i].readyState = "open")
    /\ (service.flush.pc = "loop") ~> Flushed

\* C25: the loop of onopen that empties pendingMessages comes to an end
C25_FlushTerminates ==
    (service.flush.pc = "loop") ~> (service.flush.pc = "idle")

-----------------------------------------------------------------------------
(* SpecRealTime *)

\* C29: while useWebSocket is false the connection status is 'http' and no
\* connect or disconnect listener of the App is registered, and the App never
\* has more than one pair of listeners registered
C29_HttpStatusWhileDisabled ==
    /\ ~ app.useWebSocket =>
          app.connectionStatus = "http" /\ session.listeners = 0
    /\ session.listeners <= 1

-----------------------------------------------------------------------------
(* SpecAppFair *)

\* C26: every calculation that sets calculating is followed by a state in
\* which calculating is false again, on both transports
C26_CalculatingEnds ==
    app.calculating ~> ~ app.calculating

-----------------------------------------------------------------------------
(* SpecSession *)

\* C27: a response never replaces points that the user changed after its
\* request was made, and the responses of the requests in flight are applied
\* in the order of the requests
C27_ResponseKeepsUserPoints ==
    [][session'.handled.kind # "none" =>
          /\ app.points # session'.handled.points => app'.points = app.points
          /\ session'.handled.position = 1]_vars

\* C28: with auto-update on, whenever the points or the extension differ from
\* what the last calculation request carried, a calculation request that
\* carries the points and the extension of the App follows
C28_ChangeLeadsToRequest ==
    (session.requested # [points |-> app.points,
                          cylinderExtension |-> app.cylinderExtension])
    ~> (session.requested = [points |-> app.points,
                             cylinderExtension |-> app.cylinderExtension])

-----------------------------------------------------------------------------
(* SpecDesign *)

\* C30: when no drag is in progress, historyIndex is an index of history and
\* the points shown are history[historyIndex]; and Redo right after Undo
\* shows again what was shown before the Undo
C30_HistoryMatchesPoints ==
    ~ visualizer.drag.active =>
       /\ visualizer.historyIndex \in 0..(Len(visualizer.history) - 1)
       /\ visualizer.points = visualizer.history[visualizer.historyIndex + 1]
       /\ visualizer.last = "undo, redo" => visualizer.points = visualizer.before

=============================================================================
